---- MODULE Spec2Model ----
(***************************************************************************)
(* Model of the gesture recognizer (src/src/recognizer.rs) and of the      *)
(* event processor (src/src/event.rs) of bodgestr.                         *)
(*                                                                         *)
(* Numbers.  Coordinates are integers of the calibrated range, the clock   *)
(* (std::time::Instant) is an integer number of ticks and a duration in    *)
(* seconds is a number of ticks.  The f64 comparisons of the source are    *)
(* kept exact by comparing without square roots and without divisions:     *)
(*   hypot(dx, dy) < d            is   dx^2 + dy^2 < d^2          (d >= 0) *)
(*   |dx| >= span * pct           is   |dx| * den >= span * num            *)
(*   atan2(|dy|,|dx|) in degrees <= tol                                    *)
(*                                is   |dy| * den <= |dx| * num            *)
(*        where num/den = tan(tol), 0 <= tol < 90                          *)
(*   last < first - first * pct   is   num < den and                       *)
(*                                     last^2 * den^2 < first^2*(den-num)^2*)
(*   last > first + first * pct   is   last^2 * den^2 > first^2*(den+num)^2*)
(* A fraction num/den is the pair <<num, den>>.  Option<T> is a sequence   *)
(* of length at most one: None is <<>> and Some(v) is <<v>>.               *)
(***************************************************************************)
EXTENDS Integers, Sequences, FiniteSets, TLC

\* ---- bounds of the model -------------------------------------------------
\* largest X coordinate the device reports (x_range = (0, XMax))
XMax == 2
\* largest Y coordinate the device reports (y_range = (0, YMax))
YMax == 1
\* largest tracking id a TrackingId event carries
MaxId == 1
\* last tick of the clock
MaxTime == 3
\* largest number of samples committed in one touch
MaxPoints == 2
\* largest number of samples committed in one two-finger touch
MaxPinchPoints == 4
\* last tick of the clock when the methods are called one at a time
MaxApiTime == 1

\* ---- Option --------------------------------------------------------------
None == <<>>

Some(v) == <<v>>

IsSome(o) == o # <<>>

Unwrap(o) == o[1]

\* ---- arithmetic helpers --------------------------------------------------
Abs(n) == IF n < 0 THEN -n ELSE n

Sq(n) == n * n

\* Instant::duration_since saturates at zero
DurationSince(later, earlier) == IF later >= earlier THEN later - earlier ELSE 0

\* ---- data types ----------------------------------------------------------
GestureType ==
    {"SwipeLeft", "SwipeRight", "SwipeUp", "SwipeDown", "Tap", "DoubleTap",
     "LongPress", "PinchIn", "PinchOut"}

SwipeTypes == {"SwipeLeft", "SwipeRight", "SwipeUp", "SwipeDown"}

PinchTypes == {"PinchIn", "PinchOut"}

TouchPoint(x, y, time, tracking_id) ==
    [x |-> x, y |-> y, time |-> time, tracking_id |-> tracking_id]

\* square of TouchPoint::distance_to
distance_to2(p, q) == Sq(p.x - q.x) + Sq(p.y - q.y)

\* The threshold sets a device is configured with.
\*   DefaultThresholds keeps the order of the durations of the tests
\*   (tap_time_max < double_tap_interval <= long_press_time_min <
\*   swipe_time_max), an angle tolerance below 45 degrees, and on the X axis
\*   a swipe distance above the tap distance.
DefaultThresholds ==
    [swipe_time_max          |-> 3,
     swipe_distance_min_pct  |-> <<3, 4>>,
     angle_tolerance_deg     |-> <<3, 5>>,
     tap_time_max            |-> 1,
     long_press_time_min     |-> 2,
     double_tap_interval     |-> 2,
     tap_distance_max        |-> 2,
     double_tap_distance_max |-> 2,
     pinch_threshold_pct     |-> <<1, 10>>]

\*   WideThresholds: an angle tolerance above 45 degrees, swipe distances
\*   below the tap distance on both axes, a short double-tap interval.
WideThresholds ==
    [swipe_time_max          |-> 3,
     swipe_distance_min_pct  |-> <<1, 2>>,
     angle_tolerance_deg     |-> <<6, 5>>,
     tap_time_max            |-> 1,
     long_press_time_min     |-> 2,
     double_tap_interval     |-> 1,
     tap_distance_max        |-> 2,
     double_tap_distance_max |-> 1,
     pinch_threshold_pct     |-> <<1, 2>>]

ThresholdSets == {DefaultThresholds, WideThresholds}

\* ---- GestureRecognizer ---------------------------------------------------
EmptyMap == [k \in {} |-> None]

MapInsert(m, k, v) == [i \in (DOMAIN m) \cup {k} |-> IF i = k THEN v ELSE m[i]]

\* GestureRecognizer::new
new(thresholds, x_range, y_range) ==
    [thresholds          |-> thresholds,
     x_range             |-> x_range,
     y_range             |-> y_range,
     touch_start         |-> None,
     touch_current       |-> None,
     touch_points        |-> <<>>,
     active_touches      |-> EmptyMap,
     last_tap_time       |-> None,
     last_tap_position   |-> None,
     pending_x           |-> None,
     pending_y           |-> None,
     pending_tracking_id |-> 0,
     pending_tap         |-> FALSE]

\* reset that clears last_tap_time and last_tap_position as well
reset_clears_last_tap(r) ==
    [r EXCEPT !.touch_start = None,
              !.touch_current = None,
              !.touch_points = <<>>,
              !.active_touches = EmptyMap,
              !.pending_x = None,
              !.pending_y = None,
              !.pending_tracking_id = 0,
              !.last_tap_time = None,
              !.last_tap_position = None]

\* reset that clears the pending-tap flag as well
reset_clears_pending_tap(r) ==
    [r EXCEPT !.touch_start = None,
              !.touch_current = None,
              !.touch_points = <<>>,
              !.active_touches = EmptyMap,
              !.pending_x = None,
              !.pending_y = None,
              !.pending_tracking_id = 0,
              !.pending_tap = FALSE]

\* reset that leaves touch_start
reset_keeps_touch_start(r) ==
    [r EXCEPT !.touch_current = None,
              !.touch_points = <<>>,
              !.active_touches = EmptyMap,
              !.pending_x = None,
              !.pending_y = None,
              !.pending_tracking_id = 0]

\* reset that leaves the buffered coordinates
reset_keeps_buffers(r) ==
    [r EXCEPT !.touch_start = None,
              !.touch_current = None,
              !.touch_points = <<>>,
              !.active_touches = EmptyMap,
              !.pending_tracking_id = 0]
\* reset that leaves the pending tracking id as it is
reset_keeps_tracking_id(r) ==
    [r EXCEPT !.touch_start = None,
              !.touch_current = None,
              !.touch_points = <<>>,
              !.active_touches = EmptyMap,
              !.pending_x = None,
              !.pending_y = None]


reset(r) ==
    [r EXCEPT !.touch_start = None,
              !.touch_current = None,
              !.touch_points = <<>>,
              !.active_touches = EmptyMap,
              !.pending_x = None,
              !.pending_y = None,
              !.pending_tracking_id = 0]

\* set_pending_x that keeps a value already buffered
set_pending_x_keeps_first(r, x) ==
    IF IsSome(r.pending_x) THEN r ELSE [r EXCEPT !.pending_x = Some(x)]

set_pending_x(r, x) == [r EXCEPT !.pending_x = Some(x)]

set_pending_y(r, y) == [r EXCEPT !.pending_y = Some(y)]

set_tracking_id(r, id) == [r EXCEPT !.pending_tracking_id = id]

\* flush_pending that keeps the sample active_touches already holds for
\* the tracking id
flush_pending_keeps_active(r, clock) ==
    IF r.pending_x = None /\ r.pending_y = None
    THEN r
    ELSE LET point ==
                 TouchPoint(
                     IF IsSome(r.pending_x) THEN Unwrap(r.pending_x)
                     ELSE IF IsSome(r.touch_current)
                          THEN Unwrap(r.touch_current).x ELSE 0,
                     IF IsSome(r.pending_y) THEN Unwrap(r.pending_y)
                     ELSE IF IsSome(r.touch_current)
                          THEN Unwrap(r.touch_current).y ELSE 0,
                     clock,
                     r.pending_tracking_id)
         IN  [r EXCEPT
                 !.active_touches =
                     IF r.pending_tracking_id \in DOMAIN r.active_touches
                     THEN r.active_touches
                     ELSE MapInsert(r.active_touches, r.pending_tracking_id,
                                    point),
                 !.touch_points = Append(r.touch_points, point),
                 !.touch_start =
                     IF IsSome(r.touch_start) THEN r.touch_start ELSE Some(point),
                 !.touch_current = Some(point),
                 !.pending_x = None,
                 !.pending_y = None]

\* flush_pending that replaces touch_start at every commit
flush_pending_replaces_start(r, clock) ==
    IF r.pending_x = None /\ r.pending_y = None
    THEN r
    ELSE LET point ==
                 TouchPoint(
                     IF IsSome(r.pending_x) THEN Unwrap(r.pending_x)
                     ELSE IF IsSome(r.touch_current)
                          THEN Unwrap(r.touch_current).x ELSE 0,
                     IF IsSome(r.pending_y) THEN Unwrap(r.pending_y)
                     ELSE IF IsSome(r.touch_current)
                          THEN Unwrap(r.touch_current).y ELSE 0,
                     clock,
                     r.pending_tracking_id)
         IN  [r EXCEPT
                 !.active_touches =
                     MapInsert(r.active_touches, r.pending_tracking_id, point),
                 !.touch_points = Append(r.touch_points, point),
                 !.touch_start = Some(point),
                 !.touch_current = Some(point),
                 !.pending_x = None,
                 !.pending_y = None]

\* flush_pending that commits a sample also when nothing is buffered
flush_pending_always(r, clock) ==
    LET point ==
            TouchPoint(
                IF IsSome(r.pending_x) THEN Unwrap(r.pending_x)
                ELSE IF IsSome(r.touch_current)
                     THEN Unwrap(r.touch_current).x ELSE 0,
                IF IsSome(r.pending_y) THEN Unwrap(r.pending_y)
                ELSE IF IsSome(r.touch_current)
                     THEN Unwrap(r.touch_current).y ELSE 0,
                clock,
                r.pending_tracking_id)
    IN  [r EXCEPT
            !.active_touches =
                MapInsert(r.active_touches, r.pending_tracking_id, point),
            !.touch_points = Append(r.touch_points, point),
            !.touch_start =
                IF IsSome(r.touch_start) THEN r.touch_start ELSE Some(point),
            !.touch_current = Some(point),
            !.pending_x = None,
            !.pending_y = None]

\* flush_pending; clock is the value Instant::now() returns
flush_pending(r, clock) ==
    IF r.pending_x = None /\ r.pending_y = None
    THEN r
    ELSE LET point ==
                 TouchPoint(
                     IF IsSome(r.pending_x) THEN Unwrap(r.pending_x)
                     ELSE IF IsSome(r.touch_current)
                          THEN Unwrap(r.touch_current).x ELSE 0,
                     IF IsSome(r.pending_y) THEN Unwrap(r.pending_y)
                     ELSE IF IsSome(r.touch_current)
                          THEN Unwrap(r.touch_current).y ELSE 0,
                     clock,
                     r.pending_tracking_id)
         IN  [r EXCEPT
                 !.active_touches =
                     MapInsert(r.active_touches, r.pending_tracking_id, point),
                 !.touch_points = Append(r.touch_points, point),
                 !.touch_start =
                     IF IsSome(r.touch_start) THEN r.touch_start ELSE Some(point),
                 !.touch_current = Some(point),
                 !.pending_x = None,
                 !.pending_y = None]

\* detect_swipe with the vertical test first
detect_swipe_vertical_first(r, start, current) ==
    LET dx == current.x - start.x
        dy == current.y - start.y
        dt == DurationSince(current.time, start.time)
        th == r.thresholds
        x_span == r.x_range[2] - r.x_range[1]
        y_span == r.y_range[2] - r.y_range[1]
        pct == th.swipe_distance_min_pct
        tol == th.angle_tolerance_deg
    IN  IF dt >= th.swipe_time_max THEN None
        ELSE IF /\ Abs(dy) * pct[2] >= y_span * pct[1]
                /\ Abs(dx) * tol[2] <= Abs(dy) * tol[1]
             THEN Some(IF dy > 0 THEN "SwipeDown" ELSE "SwipeUp")
        ELSE IF /\ Abs(dx) * pct[2] >= x_span * pct[1]
                /\ Abs(dy) * tol[2] <= Abs(dx) * tol[1]
             THEN Some(IF dx > 0 THEN "SwipeRight" ELSE "SwipeLeft")
        ELSE None

detect_swipe(r, start, current) ==
    LET dx == current.x - start.x
        dy == current.y - start.y
        dt == DurationSince(current.time, start.time)
        th == r.thresholds
        x_span == r.x_range[2] - r.x_range[1]
        y_span == r.y_range[2] - r.y_range[1]
        pct == th.swipe_distance_min_pct
        tol == th.angle_tolerance_deg
    IN  IF dt >= th.swipe_time_max THEN None
        ELSE IF /\ Abs(dx) * pct[2] >= x_span * pct[1]
                /\ Abs(dy) * tol[2] <= Abs(dx) * tol[1]
             THEN Some(IF dx > 0 THEN "SwipeRight" ELSE "SwipeLeft")
        ELSE IF /\ Abs(dy) * pct[2] >= y_span * pct[1]
                /\ Abs(dx) * tol[2] <= Abs(dy) * tol[1]
             THEN Some(IF dy > 0 THEN "SwipeDown" ELSE "SwipeUp")
        ELSE None

\* detect_stationary with the tap limits tested before the long press
detect_stationary_tap_first(r, start, current, clock) ==
    LET dt == DurationSince(current.time, start.time)
        distance2 == distance_to2(start, current)
        th == r.thresholds
    IN  IF dt >= th.tap_time_max \/ distance2 >= Sq(th.tap_distance_max)
        THEN [rec |-> r, g |-> None]
        ELSE IF dt >= th.long_press_time_min /\ distance2 < Sq(th.tap_distance_max)
        THEN [rec |-> r, g |-> Some("LongPress")]
        ELSE IF /\ IsSome(r.last_tap_time)
                /\ IsSome(r.last_tap_position)
                /\ DurationSince(clock, Unwrap(r.last_tap_time))
                       < th.double_tap_interval
                /\ Sq(current.x - Unwrap(r.last_tap_position)[1])
                   + Sq(current.y - Unwrap(r.last_tap_position)[2])
                       < Sq(th.double_tap_distance_max)
        THEN [rec |-> [r EXCEPT !.pending_tap = FALSE,
                                !.last_tap_time = None,
                                !.last_tap_position = None],
              g |-> Some("DoubleTap")]
        ELSE [rec |-> [r EXCEPT !.last_tap_time = Some(clock),
                                !.last_tap_position =
                                    Some(<<current.x, current.y>>),
                                !.pending_tap = TRUE],
              g |-> None]

\* detect_stationary with a double tap that does not test the interval
detect_stationary_any_interval(r, start, current, clock) ==
    LET dt == DurationSince(current.time, start.time)
        distance2 == distance_to2(start, current)
        th == r.thresholds
    IN  IF dt >= th.long_press_time_min /\ distance2 < Sq(th.tap_distance_max)
        THEN [rec |-> r, g |-> Some("LongPress")]
        ELSE IF dt >= th.tap_time_max \/ distance2 >= Sq(th.tap_distance_max)
        THEN [rec |-> r, g |-> None]
        ELSE IF /\ IsSome(r.last_tap_time)
                /\ IsSome(r.last_tap_position)
                /\ Sq(current.x - Unwrap(r.last_tap_position)[1])
                   + Sq(current.y - Unwrap(r.last_tap_position)[2])
                       < Sq(th.double_tap_distance_max)
        THEN [rec |-> [r EXCEPT !.pending_tap = FALSE,
                                !.last_tap_time = None,
                                !.last_tap_position = None],
              g |-> Some("DoubleTap")]
        ELSE [rec |-> [r EXCEPT !.last_tap_time = Some(clock),
                                !.last_tap_position =
                                    Some(<<current.x, current.y>>),
                                !.pending_tap = TRUE],
              g |-> None]

\* detect_stationary; clock is the value Instant::now() returns
\* detect_stationary whose DoubleTap leaves pending_tap set
detect_stationary_keeps_pending(r, start, current, clock) ==
    LET dt == DurationSince(current.time, start.time)
        distance2 == distance_to2(start, current)
        th == r.thresholds
    IN  IF dt >= th.long_press_time_min /\ distance2 < Sq(th.tap_distance_max)
        THEN [rec |-> r, g |-> Some("LongPress")]
        ELSE IF dt >= th.tap_time_max \/ distance2 >= Sq(th.tap_distance_max)
        THEN [rec |-> r, g |-> None]
        ELSE IF /\ IsSome(r.last_tap_time)
                /\ IsSome(r.last_tap_position)
                /\ DurationSince(clock, Unwrap(r.last_tap_time))
                       < th.double_tap_interval
                /\ Sq(current.x - Unwrap(r.last_tap_position)[1])
                   + Sq(current.y - Unwrap(r.last_tap_position)[2])
                       < Sq(th.double_tap_distance_max)
        THEN [rec |-> [r EXCEPT !.last_tap_time = None,
                                !.last_tap_position = None],
              g |-> Some("DoubleTap")]
        ELSE [rec |-> [r EXCEPT !.last_tap_time = Some(clock),
                                !.last_tap_position =
                                    Some(<<current.x, current.y>>),
                                !.pending_tap = TRUE],
              g |-> None]

\* detect_stationary whose second test looks at the distance only
detect_stationary_any_duration(r, start, current, clock) ==
    LET dt == DurationSince(current.time, start.time)
        distance2 == distance_to2(start, current)
        th == r.thresholds
    IN  IF dt >= th.long_press_time_min /\ distance2 < Sq(th.tap_distance_max)
        THEN [rec |-> r, g |-> Some("LongPress")]
        ELSE IF distance2 >= Sq(th.tap_distance_max)
        THEN [rec |-> r, g |-> None]
        ELSE IF /\ IsSome(r.last_tap_time)
                /\ IsSome(r.last_tap_position)
                /\ DurationSince(clock, Unwrap(r.last_tap_time))
                       < th.double_tap_interval
                /\ Sq(current.x - Unwrap(r.last_tap_position)[1])
                   + Sq(current.y - Unwrap(r.last_tap_position)[2])
                       < Sq(th.double_tap_distance_max)
        THEN [rec |-> [r EXCEPT !.pending_tap = FALSE,
                                !.last_tap_time = None,
                                !.last_tap_position = None],
              g |-> Some("DoubleTap")]
        ELSE [rec |-> [r EXCEPT !.last_tap_time = Some(clock),
                                !.last_tap_position =
                                    Some(<<current.x, current.y>>),
                                !.pending_tap = TRUE],
              g |-> None]

\* detect_stationary that records the end of the double-tap interval
\* instead of the time of the tap
detect_stationary_records_deadline(r, start, current, clock) ==
    LET dt == DurationSince(current.time, start.time)
        distance2 == distance_to2(start, current)
        th == r.thresholds
    IN  IF dt >= th.long_press_time_min /\ distance2 < Sq(th.tap_distance_max)
        THEN [rec |-> r, g |-> Some("LongPress")]
        ELSE IF dt >= th.tap_time_max \/ distance2 >= Sq(th.tap_distance_max)
        THEN [rec |-> r, g |-> None]
        ELSE IF /\ IsSome(r.last_tap_time)
                /\ IsSome(r.last_tap_position)
                /\ DurationSince(clock, Unwrap(r.last_tap_time))
                       < th.double_tap_interval
                /\ Sq(current.x - Unwrap(r.last_tap_position)[1])
                   + Sq(current.y - Unwrap(r.last_tap_position)[2])
                       < Sq(th.double_tap_distance_max)
        THEN [rec |-> [r EXCEPT !.pending_tap = FALSE,
                                !.last_tap_time = None,
                                !.last_tap_position = None],
              g |-> Some("DoubleTap")]
        ELSE [rec |-> [r EXCEPT !.last_tap_time =
                                    Some(clock + th.double_tap_interval),
                                !.last_tap_position =
                                    Some(<<current.x, current.y>>),
                                !.pending_tap = TRUE],
              g |-> None]

\* detect_stationary that takes the duration up to the clock of the call
detect_stationary_until_lift(r, start, current, clock) ==
    LET dt == DurationSince(clock, start.time)
        distance2 == distance_to2(start, current)
        th == r.thresholds
    IN  IF dt >= th.long_press_time_min /\ distance2 < Sq(th.tap_distance_max)
        THEN [rec |-> r, g |-> Some("LongPress")]
        ELSE IF dt >= th.tap_time_max \/ distance2 >= Sq(th.tap_distance_max)
        THEN [rec |-> r, g |-> None]
        ELSE IF /\ IsSome(r.last_tap_time)
                /\ IsSome(r.last_tap_position)
                /\ DurationSince(clock, Unwrap(r.last_tap_time))
                       < th.double_tap_interval
                /\ Sq(current.x - Unwrap(r.last_tap_position)[1])
                   + Sq(current.y - Unwrap(r.last_tap_position)[2])
                       < Sq(th.double_tap_distance_max)
        THEN [rec |-> [r EXCEPT !.pending_tap = FALSE,
                                !.last_tap_time = None,
                                !.last_tap_position = None],
              g |-> Some("DoubleTap")]
        ELSE [rec |-> [r EXCEPT !.last_tap_time = Some(clock),
                                !.last_tap_position =
                                    Some(<<current.x, current.y>>),
                                !.pending_tap = TRUE],
              g |-> None]

\* detect_stationary whose double-tap test looks at the time only
detect_stationary_any_distance(r, start, current, clock) ==
    LET dt == DurationSince(current.time, start.time)
        distance2 == distance_to2(start, current)
        th == r.thresholds
    IN  IF dt >= th.long_press_time_min /\ distance2 < Sq(th.tap_distance_max)
        THEN [rec |-> r, g |-> Some("LongPress")]
        ELSE IF dt >= th.tap_time_max \/ distance2 >= Sq(th.tap_distance_max)
        THEN [rec |-> r, g |-> None]
        ELSE IF /\ IsSome(r.last_tap_time)
                /\ IsSome(r.last_tap_position)
                /\ DurationSince(clock, Unwrap(r.last_tap_time))
                       < th.double_tap_interval
        THEN [rec |-> [r EXCEPT !.pending_tap = FALSE,
                                !.last_tap_time = None,
                                !.last_tap_position = None],
              g |-> Some("DoubleTap")]
        ELSE [rec |-> [r EXCEPT !.last_tap_time = Some(clock),
                                !.last_tap_position =
                                    Some(<<current.x, current.y>>),
                                !.pending_tap = TRUE],
              g |-> None]

detect_stationary(r, start, current, clock) ==
    LET dt == DurationSince(current.time, start.time)
        distance2 == distance_to2(start, current)
        th == r.thresholds
    IN  IF dt >= th.long_press_time_min /\ distance2 < Sq(th.tap_distance_max)
        THEN [rec |-> r, g |-> Some("LongPress")]
        ELSE IF dt >= th.tap_time_max \/ distance2 >= Sq(th.tap_distance_max)
        THEN [rec |-> r, g |-> None]
        ELSE IF /\ IsSome(r.last_tap_time)
                /\ IsSome(r.last_tap_position)
                /\ DurationSince(clock, Unwrap(r.last_tap_time))
                       < th.double_tap_interval
                /\ Sq(current.x - Unwrap(r.last_tap_position)[1])
                   + Sq(current.y - Unwrap(r.last_tap_position)[2])
                       < Sq(th.double_tap_distance_max)
        THEN [rec |-> [r EXCEPT !.pending_tap = FALSE,
                                !.last_tap_time = None,
                                !.last_tap_position = None],
              g |-> Some("DoubleTap")]
        ELSE [rec |-> [r EXCEPT !.last_tap_time = Some(clock),
                                !.last_tap_position =
                                    Some(<<current.x, current.y>>),
                                !.pending_tap = TRUE],
              g |-> None]

\* detect_pinch without the test of the number of samples
detect_pinch_any_length(r) ==
    LET tp == r.touch_points
        n == Len(tp)
    IN  IF n < 1 \/ Cardinality(DOMAIN r.active_touches) < 2 THEN None
        ELSE
        LET firstOther == {i \in 2..n : tp[i].tracking_id # tp[1].tracking_id}
            lastOther == {i \in 1..(n - 1) : tp[i].tracking_id # tp[n].tracking_id}
        IN  IF firstOther = {} \/ lastOther = {} THEN None
            ELSE
            LET p2_first == tp[CHOOSE i \in firstOther : \A j \in firstOther : i <= j]
                p2_last == tp[CHOOSE i \in lastOther : \A j \in lastOther : i >= j]
                first_dist2 == distance_to2(tp[1], p2_first)
                last_dist2 == distance_to2(tp[n], p2_last)
                pct == r.thresholds.pinch_threshold_pct
            IN  IF /\ pct[1] < pct[2]
                   /\ last_dist2 * Sq(pct[2]) < first_dist2 * Sq(pct[2] - pct[1])
                THEN Some("PinchIn")
                ELSE IF last_dist2 * Sq(pct[2]) > first_dist2 * Sq(pct[2] + pct[1])
                THEN Some("PinchOut")
                ELSE None

\* detect_pinch that measures the final separation to the earliest sample
\* of another tracking id
detect_pinch_earliest_other(r) ==
    LET tp == r.touch_points
        n == Len(tp)
    IN  IF n < 4 \/ Cardinality(DOMAIN r.active_touches) < 2 THEN None
        ELSE
        LET firstOther == {i \in 2..n : tp[i].tracking_id # tp[1].tracking_id}
            lastOther == {i \in 1..(n - 1) : tp[i].tracking_id # tp[n].tracking_id}
        IN  IF firstOther = {} \/ lastOther = {} THEN None
            ELSE
            LET p2_first == tp[CHOOSE i \in firstOther : \A j \in firstOther : i <= j]
                p2_last == tp[CHOOSE i \in lastOther : \A j \in lastOther : i <= j]
                first_dist2 == distance_to2(tp[1], p2_first)
                last_dist2 == distance_to2(tp[n], p2_last)
                pct == r.thresholds.pinch_threshold_pct
            IN  IF /\ pct[1] < pct[2]
                   /\ last_dist2 * Sq(pct[2]) < first_dist2 * Sq(pct[2] - pct[1])
                THEN Some("PinchIn")
                ELSE IF last_dist2 * Sq(pct[2]) > first_dist2 * Sq(pct[2] + pct[1])
                THEN Some("PinchOut")
                ELSE None

detect_pinch(r) ==
    LET tp == r.touch_points
        n == Len(tp)
    IN  IF n < 4 \/ Cardinality(DOMAIN r.active_touches) < 2 THEN None
        ELSE
        LET firstOther == {i \in 2..n : tp[i].tracking_id # tp[1].tracking_id}
            lastOther == {i \in 1..(n - 1) : tp[i].tracking_id # tp[n].tracking_id}
        IN  IF firstOther = {} \/ lastOther = {} THEN None
            ELSE
            LET p2_first == tp[CHOOSE i \in firstOther : \A j \in firstOther : i <= j]
                p2_last == tp[CHOOSE i \in lastOther : \A j \in lastOther : i >= j]
                first_dist2 == distance_to2(tp[1], p2_first)
                last_dist2 == distance_to2(tp[n], p2_last)
                pct == r.thresholds.pinch_threshold_pct
            IN  IF /\ pct[1] < pct[2]
                   /\ last_dist2 * Sq(pct[2]) < first_dist2 * Sq(pct[2] - pct[1])
                THEN Some("PinchIn")
                ELSE IF last_dist2 * Sq(pct[2]) > first_dist2 * Sq(pct[2] + pct[1])
                THEN Some("PinchOut")
                ELSE None

\* recognize_gesture that tries the swipe before the pinch
recognize_gesture_swipe_first(r, clock) ==
    IF r.touch_start = None \/ r.touch_current = None
    THEN [rec |-> r, g |-> None]
    ELSE LET start == Unwrap(r.touch_start)
             current == Unwrap(r.touch_current)
             pinch == IF Cardinality(DOMAIN r.active_touches) >= 2
                      THEN detect_pinch(r) ELSE None
             swipe == detect_swipe(r, start, current)
         IN  IF IsSome(swipe) THEN [rec |-> r, g |-> swipe]
             ELSE IF IsSome(pinch) THEN [rec |-> r, g |-> pinch]
             ELSE detect_stationary(r, start, current, clock)

\* recognize_gesture; clock is the value Instant::now() returns
\* recognize_gesture that leaves a touch of several fingers to pinch
\* detection alone
recognize_gesture_pinch_only(r, clock) ==
    IF r.touch_start = None \/ r.touch_current = None
    THEN [rec |-> r, g |-> None]
    ELSE LET start == Unwrap(r.touch_start)
             current == Unwrap(r.touch_current)
             swipe == detect_swipe(r, start, current)
         IN  IF Cardinality(DOMAIN r.active_touches) >= 2
             THEN [rec |-> r, g |-> detect_pinch(r)]
             ELSE IF IsSome(swipe) THEN [rec |-> r, g |-> swipe]
             ELSE detect_stationary(r, start, current, clock)

recognize_gesture(r, clock) ==
    IF r.touch_start = None \/ r.touch_current = None
    THEN [rec |-> r, g |-> None]
    ELSE LET start == Unwrap(r.touch_start)
             current == Unwrap(r.touch_current)
             pinch == IF Cardinality(DOMAIN r.active_touches) >= 2
                      THEN detect_pinch(r) ELSE None
             swipe == detect_swipe(r, start, current)
         IN  IF IsSome(pinch) THEN [rec |-> r, g |-> pinch]
             ELSE IF IsSome(swipe) THEN [rec |-> r, g |-> swipe]
             ELSE detect_stationary(r, start, current, clock)

has_pending_tap(r) == r.pending_tap

\* get_pending_tap: taken is the value returned
get_pending_tap(r) ==
    [rec |-> [r EXCEPT !.pending_tap = FALSE], taken |-> r.pending_tap]

\* check_pending_tap_expired that returns Tap and leaves the flag set
check_pending_tap_expired_keeps_flag(r, clock) ==
    IF ~r.pending_tap THEN [rec |-> r, g |-> None]
    ELSE IF r.last_tap_time = None THEN [rec |-> r, g |-> None]
    ELSE IF DurationSince(clock, Unwrap(r.last_tap_time))
                >= r.thresholds.double_tap_interval
    THEN [rec |-> r, g |-> Some("Tap")]
    ELSE [rec |-> r, g |-> None]

\* check_pending_tap_expired that does not test the flag
check_pending_tap_expired_any_flag(r, clock) ==
    IF r.last_tap_time = None THEN [rec |-> r, g |-> None]
    ELSE IF DurationSince(clock, Unwrap(r.last_tap_time))
                >= r.thresholds.double_tap_interval
    THEN [rec |-> [r EXCEPT !.pending_tap = FALSE], g |-> Some("Tap")]
    ELSE [rec |-> r, g |-> None]

\* check_pending_tap_expired; clock is the instant elapsed() is taken at
\* check_pending_tap_expired that forgets the time of the tap it returns
check_pending_tap_expired_clears_time(r, clock) ==
    IF ~r.pending_tap THEN [rec |-> r, g |-> None]
    ELSE IF r.last_tap_time = None THEN [rec |-> r, g |-> None]
    ELSE IF DurationSince(clock, Unwrap(r.last_tap_time))
                >= r.thresholds.double_tap_interval
    THEN [rec |-> [r EXCEPT !.pending_tap = FALSE, !.last_tap_time = None],
          g |-> Some("Tap")]
    ELSE [rec |-> r, g |-> None]

check_pending_tap_expired(r, clock) ==
    IF ~r.pending_tap THEN [rec |-> r, g |-> None]
    ELSE IF r.last_tap_time = None THEN [rec |-> r, g |-> None]
    ELSE IF DurationSince(clock, Unwrap(r.last_tap_time))
                >= r.thresholds.double_tap_interval
    THEN [rec |-> [r EXCEPT !.pending_tap = FALSE], g |-> Some("Tap")]
    ELSE [rec |-> r, g |-> None]

\* ---- process_touch_events ------------------------------------------------
\* TouchEvent: a tuple of the variant's name and its value
PositionXEv(x) == <<"PositionX", x>>

PositionYEv(y) == <<"PositionY", y>>

TrackingIdEv(id) == <<"TrackingId", id>>

FingerUpEv == <<"FingerUp">>

SynReportEv == <<"SynReport">>

\* The arm of FingerUp with recognition before the expiry check
finger_up_recognize_first(r, c1, c2) ==
    LET g == recognize_gesture(r, c1)
        e == check_pending_tap_expired(g.rec, c2)
    IN  [rec |-> reset(e.rec), out |-> g.g \o e.g]

\* The arm of FingerUp: expiry check at clock c1, recognition at clock c2,
\* reset.
finger_up(r, c1, c2) ==
    LET e == check_pending_tap_expired(r, c1)
        g == recognize_gesture(e.rec, c2)
    IN  [rec |-> reset(g.rec), out |-> e.g \o g.g]

\* The arm of SynReport without the expiry check
syn_report_flush_only(r, c1, c2) ==
    [rec |-> flush_pending(r, c1), out |-> <<>>]

\* The arm of SynReport with a recognition after the expiry check
syn_report_recognizes(r, c1, c2) ==
    LET e == check_pending_tap_expired(flush_pending(r, c1), c2)
        g == recognize_gesture(e.rec, c2)
    IN  [rec |-> g.rec, out |-> e.g \o g.g]

\* The arm of SynReport: commit at clock c1, expiry check at clock c2.
syn_report(r, c1, c2) ==
    LET e == check_pending_tap_expired(flush_pending(r, c1), c2)
    IN  [rec |-> e.rec, out |-> e.g]

\* The loop of process_touch_events over the events left, gestures being
\* the Vec collected so far.  clocks lists the values the clock has at the
\* reads the events make: two for each SynReport and each FingerUp.
RECURSIVE process_events(_, _, _, _)
process_events(r, events, clocks, gestures) ==
    IF events = <<>> THEN [rec |-> r, gestures |-> gestures]
    ELSE LET event == Head(events)
             rest == Tail(events)
         IN  CASE event[1] = "PositionX" ->
                      process_events(set_pending_x(r, event[2]), rest, clocks,
                                     gestures)
               [] event[1] = "PositionY" ->
                      process_events(set_pending_y(r, event[2]), rest, clocks,
                                     gestures)
               [] event[1] = "TrackingId" ->
                      process_events(set_tracking_id(r, event[2]), rest, clocks,
                                     gestures)
               [] event[1] = "FingerUp" ->
                      LET h == finger_up(r, clocks[1], clocks[2])
                      IN  process_events(h.rec, rest, Tail(Tail(clocks)),
                                         gestures \o h.out)
               [] event[1] = "SynReport" ->
                      LET h == syn_report(r, clocks[1], clocks[2])
                      IN  process_events(h.rec, rest, Tail(Tail(clocks)),
                                         gestures \o h.out)

\* process_touch_events that starts every call with empty buffers
process_touch_events_drops_buffers(r, events, clocks) ==
    process_events([r EXCEPT !.pending_x = None, !.pending_y = None],
                   events, clocks, <<>>)

process_touch_events(r, events, clocks) == process_events(r, events, clocks, <<>>)

\* ---- inputs --------------------------------------------------------------
\* One report of the device: the axes that changed, then the sync marker.
\* id, x and y are Options.
Frame(id, x, y) ==
    (IF IsSome(id) THEN <<TrackingIdEv(Unwrap(id))>> ELSE <<>>)
    \o (IF IsSome(x) THEN <<PositionXEv(Unwrap(x))>> ELSE <<>>)
    \o (IF IsSome(y) THEN <<PositionYEv(Unwrap(y))>> ELSE <<>>)
    \o <<SynReportEv>>

OptionOf(S) == {None} \cup {Some(v) : v \in S}

\* The last clock value read during a call.
LastClock(clocks) == clocks[Len(clocks)]

\* The clock may pass one tick boundary between the two reads of a handler.
Delay == {0, 1}

\* ---- state ---------------------------------------------------------------
VARIABLES
    rec,        \* the GestureRecognizer of the device
    now,        \* the clock (Instant::now())
    gestures,   \* what the last call returned
    ev,         \* the last step: "none", "SynReport", "FingerUp", "Tick",
                \* "Touch", "Return"
    lifted,     \* the touch the last call's FingerUp ended, if any
    call,       \* SpecBatch: the call that has just returned, if any
    prev        \* SpecBatch: the touch before, if it was a tap

vars == <<rec, now, gestures, ev, lifted, call, prev>>

\* What recognition reads of the session of r: the start-to-current vector
\* and duration, the number of active tracking ids and what pinch
\* detection makes of the samples.
TouchOf(r) ==
    IF r.touch_start = None \/ r.touch_current = None THEN None
    ELSE LET start == Unwrap(r.touch_start)
             current == Unwrap(r.touch_current)
         IN  Some([dx |-> current.x - start.x,
                   dy |-> current.y - start.y,
                   dt |-> DurationSince(current.time, start.time),
                   fingers |-> Cardinality(DOMAIN r.active_touches),
                   pinch |-> detect_pinch(r)])

Init ==
    /\ \E th \in ThresholdSets : rec = new(th, <<0, XMax>>, <<0, YMax>>)
    /\ now = 0
    /\ gestures = <<>>
    /\ ev = "none"
    /\ lifted = None
    /\ call = None
    /\ prev = None

\* process_touch_events(rec, batch) with the clock reads clocks
Process(batch, clocks) ==
    /\ LastClock(clocks) <= MaxTime
    /\ LET p == process_touch_events(rec, batch, clocks)
       IN  /\ rec' = p.rec
           /\ gestures' = p.gestures
    /\ now' = LastClock(clocks)

\* ---- Spec: the calls of the device loop -----------------------------------
\* The device loop calls process_touch_events once for each event.  The
\* handlers of PositionX, PositionY and TrackingId read no clock and return
\* nothing, so the calls for the events of one report are taken as one
\* step: the call for its SynReport, with the buffered values before it.

\* The device loop hands over the events of one report.
Report ==
    \E id \in OptionOf(0..MaxId), x \in OptionOf(0..XMax),
       y \in OptionOf(0..YMax), d \in Delay :
        /\ (IsSome(x) \/ IsSome(y)) => Len(rec.touch_points) < MaxPoints
        /\ Process(Frame(id, x, y), <<now, now + d>>)
        /\ ev' = "SynReport"
        /\ lifted' = None
        /\ UNCHANGED <<call, prev>>

\* The device loop hands over a tracking id of -1.
FingerUp ==
    \E d \in Delay :
        /\ Process(<<FingerUpEv>>, <<now, now + d>>)
        /\ ev' = "FingerUp"
        /\ lifted' = TouchOf(rec)
        /\ UNCHANGED <<call, prev>>

\* Time passes between two calls.
Tick ==
    /\ now < MaxTime
    /\ now' = now + 1
    /\ gestures' = <<>>
    /\ ev' = "Tick"
    /\ lifted' = None
    /\ UNCHANGED <<rec, call, prev>>

Next ==
    \/ Report
    \/ FingerUp
    \/ Tick

Spec == Init /\ [][Next]_vars

\* ---- SpecBatch: one call for the events of a whole touch ------------------
\* The events of one single-finger touch, as the tests feed them: one or two
\* full reports and the FingerUp.
TouchBatches ==
    LET reports ==
            {Frame(None, Some(x), Some(y)) : x \in 0..XMax, y \in 0..YMax}
    IN  {r1 \o <<FingerUpEv>> : r1 \in reports}
        \cup {r1 \o r2 \o <<FingerUpEv>> : r1 \in reports, r2 \in reports}

\* The events of batch that read the clock.
ClockEvents(batch) ==
    SelectSeq(batch, LAMBDA e : e[1] \in {"SynReport", "FingerUp"})

\* The clock reads of a batch whose k-th clock-reading event is handled
\* gaps[k] ticks after the one before it (after now for the first).
RECURSIVE ClocksFrom(_, _)
ClocksFrom(t, gaps) ==
    IF gaps = <<>> THEN <<>>
    ELSE <<t + Head(gaps), t + Head(gaps)>> \o ClocksFrom(t + Head(gaps), Tail(gaps))

\* The gaps of a batch of n clock-reading events: the first report is
\* handled at once, a second report any time later, the FingerUp within a
\* tick of the last report.
GapsOf(n) ==
    IF n = 2 THEN {<<0, d>> : d \in Delay}
    ELSE {<<0, g, d>> : g \in 0..MaxTime, d \in Delay}

RECURSIVE Sum(_)
Sum(q) == IF q = <<>> THEN 0 ELSE Head(q) + Sum(Tail(q))

\* The index of the FingerUp of a batch.
FingerUpAt(batch) == CHOOSE i \in 1..Len(batch) : batch[i] = FingerUpEv

\* One call of process_touch_events for a whole touch (between two touches
\* the caller takes the result: Return).
Touch ==
    /\ ev # "Touch"
    /\ \E batch \in TouchBatches :
         \E gaps \in GapsOf(Len(ClockEvents(batch))) :
            LET clocks == ClocksFrom(now, gaps)
                k == FingerUpAt(batch)
                upto == process_touch_events(
                            rec, SubSeq(batch, 1, k - 1), clocks).rec
            IN  /\ now + Sum(gaps) <= MaxTime
                /\ Process(batch, clocks)
                /\ call' = Some([pre |-> rec, batch |-> batch, clocks |-> clocks,
                                 before |-> upto])
                /\ lifted' = TouchOf(upto)
    /\ ev' = "Touch"
    /\ UNCHANGED prev

\* The clock reads of the FingerUp of the call c: expiry check, recognition.
ExpiryClock(c) == c.clocks[2 * Len(ClockEvents(SubSeq(c.batch, 1, FingerUpAt(c.batch)))) - 1]

LiftClock(c) == c.clocks[2 * Len(ClockEvents(SubSeq(c.batch, 1, FingerUpAt(c.batch))))]

\* The caller has taken the result of the call.
Return ==
    /\ ev = "Touch"
    /\ ev' = "Return"
    /\ gestures' = <<>>
    /\ lifted' = None
    /\ call' = None
    /\ prev' = LET c == Unwrap(call)
                   t == Unwrap(lifted)
               IN  IF /\ t.fingers = 1
                      /\ t.dt < rec.thresholds.tap_time_max
                      /\ Sq(t.dx) + Sq(t.dy) < Sq(rec.thresholds.tap_distance_max)
                   THEN Some([x |-> Unwrap(c.before.touch_current).x,
                              y |-> Unwrap(c.before.touch_current).y,
                              time |-> LiftClock(c),
                              double |-> \E i \in 1..Len(gestures) :
                                             gestures[i] = "DoubleTap"])
                   ELSE None
    /\ UNCHANGED <<rec, now>>

\* Time passes between two touches.
Wait ==
    /\ ev # "Touch"
    /\ now < MaxTime
    /\ now' = now + 1
    /\ UNCHANGED <<rec, gestures, ev, lifted, call, prev>>

NextBatch ==
    \/ Touch
    \/ Return
    \/ Wait

SpecBatch == Init /\ [][NextBatch]_vars

\* ---- SpecPinch: touches of two fingers along the X axis -------------------
\* Two contacts report in turn: each report names the contact and its X.
PinchReport ==
    \E id \in 0..MaxId, x \in 0..XMax :
        /\ Len(rec.touch_points) < MaxPinchPoints
        /\ Process(Frame(Some(id), Some(x), None), <<now, now>>)
        /\ ev' = "SynReport"
        /\ lifted' = None
        /\ UNCHANGED <<call, prev>>

PinchFingerUp ==
    /\ Process(<<FingerUpEv>>, <<now, now>>)
    /\ ev' = "FingerUp"
    /\ lifted' = TouchOf(rec)
    /\ UNCHANGED <<call, prev>>

NextPinch ==
    \/ PinchReport
    \/ PinchFingerUp

SpecPinch == Init /\ [][NextPinch]_vars

\* ---- SpecPinchTimed: touches of two fingers, with time passing -------------
MaxPinchTime == 1

\*   NarrowThresholds: DefaultThresholds with a tap distance below the swipe
\*   distance of the X axis by more than a unit, so that a touch can move
\*   too far for a tap without being a swipe.
NarrowThresholds ==
    [DefaultThresholds EXCEPT !.tap_distance_max = 1,
                              !.double_tap_distance_max = 1]

InitPinchTimed ==
    /\ \E th \in ThresholdSets \cup {NarrowThresholds} :
            rec = new(th, <<0, XMax>>, <<0, YMax>>)
    /\ now = 0
    /\ gestures = <<>>
    /\ ev = "none"
    /\ lifted = None
    /\ call = None
    /\ prev = None

\* Time passes between two reports of the contacts.
PinchTick ==
    /\ now < MaxPinchTime
    /\ now' = now + 1
    /\ gestures' = <<>>
    /\ ev' = "Tick"
    /\ lifted' = None
    /\ UNCHANGED <<rec, call, prev>>

NextPinchTimed ==
    \/ PinchReport
    \/ PinchFingerUp
    \/ PinchTick

SpecPinchTimed == InitPinchTimed /\ [][NextPinchTimed]_vars

\* ---- SpecDetect: pinch detection on any sample history ------------------
\* The fields are public: the tests fill touch_points and active_touches
\* directly, with any history and any map.
PinchSamples ==
    {TouchPoint(x, 0, 0, id) : x \in {0, XMax}, id \in 0..MaxId}

RECURSIVE Histories(_)
Histories(n) ==
    IF n = 0 THEN {<<>>}
    ELSE Histories(n - 1)
         \cup {Append(h, p) : h \in {g \in Histories(n - 1) : Len(g) = n - 1},
                              p \in PinchSamples}

ActiveMaps ==
    {[id \in ids |-> TouchPoint(0, 0, 0, id)] : ids \in SUBSET (0..MaxId)}

InitDetect ==
    /\ \E th \in ThresholdSets, h \in Histories(MaxPinchPoints),
          m \in ActiveMaps :
           rec = [new(th, <<0, XMax>>, <<0, YMax>>)
                      EXCEPT !.touch_points = h, !.active_touches = m]
    /\ now = 0
    /\ gestures = <<>>
    /\ ev = "none"
    /\ lifted = None
    /\ call = None
    /\ prev = None

\* detect_pinch is called on the history.
DetectPinch ==
    /\ ev = "none"
    /\ gestures' = detect_pinch(rec)
    /\ ev' = "detect_pinch"
    /\ UNCHANGED <<rec, now, lifted, call, prev>>

NextDetect == DetectPinch

SpecDetect == InitDetect /\ [][NextDetect]_vars

\* ---- SpecDegenerate: a device one of whose axes has minimum = maximum -----
DegenerateRanges ==
    {<<<<0, 0>>, <<0, YMax>>>>, <<<<0, XMax>>, <<0, 0>>>>}

InitDegenerate ==
    /\ \E th \in ThresholdSets, ranges \in DegenerateRanges :
           rec = new(th, ranges[1], ranges[2])
    /\ now = 0
    /\ gestures = <<>>
    /\ ev = "none"
    /\ lifted = None
    /\ call = None
    /\ prev = None

\* The device reports values within its ranges.
DegenerateReport ==
    \E x \in OptionOf(rec.x_range[1]..rec.x_range[2]),
       y \in OptionOf(rec.y_range[1]..rec.y_range[2]), d \in Delay :
        /\ (IsSome(x) \/ IsSome(y)) => Len(rec.touch_points) < MaxPoints
        /\ Process(Frame(None, x, y), <<now, now + d>>)
        /\ ev' = "SynReport"
        /\ lifted' = None
        /\ UNCHANGED <<call, prev>>

NextDegenerate ==
    \/ DegenerateReport
    \/ FingerUp
    \/ Tick

SpecDegenerate == InitDegenerate /\ [][NextDegenerate]_vars

\* ---- SpecWorkers: the workers of two devices ------------------------------
\* GestureManager::start spawns one thread for each configured device that
\* is found; the thread runs run_device_loop, which builds the recognizer
\* its event_loop works on.  In this specification rec, gestures, call and
\* prev hold one value for each device: the recognizer of its worker, the
\* gestures its worker has fired, the events its worker has handled with
\* their clock reads, and the events the device has still to deliver.
Devices == {"left", "right"}

MaxWorkerTime == 2

\* What a device delivers: a swipe, two taps, a touch held in place.
DeviceStreams ==
    {<<PositionXEv(0), SynReportEv, PositionXEv(XMax), SynReportEv, FingerUpEv>>,
     <<PositionXEv(XMax), SynReportEv, FingerUpEv,
       PositionXEv(XMax), SynReportEv, FingerUpEv>>,
     <<PositionXEv(0), SynReportEv, SynReportEv, FingerUpEv>>}

\* event_loop with one recognizer for all the workers
event_loop_shared(recs, d, event, clocks) ==
    LET p == process_touch_events(recs[CHOOSE k \in DOMAIN recs : TRUE],
                                  <<event>>, clocks)
    IN  [recs |-> [k \in DOMAIN recs |-> p.rec], fired |-> p.gestures]

\* One pass of the loop of event_loop in the worker of device d:
\* process_touch_events(recognizer, &[te]) on the recognizer of that worker.
event_loop(recs, d, event, clocks) ==
    LET p == process_touch_events(recs[d], <<event>>, clocks)
    IN  [recs |-> [recs EXCEPT ![d] = p.rec], fired |-> p.gestures]

InitWorkers ==
    /\ rec \in [Devices -> {new(th, <<0, XMax>>, <<0, YMax>>) : th \in ThresholdSets}]
    /\ prev \in [Devices -> DeviceStreams]
    /\ call = [d \in Devices |-> [start |-> rec[d], events |-> <<>>, clocks |-> <<>>]]
    /\ gestures = [d \in Devices |-> <<>>]
    /\ now = 0
    /\ ev = "none"
    /\ lifted = None

\* The worker of device d handles the next event of its device.
Worker ==
    \E d \in Devices, delay \in Delay :
        /\ prev[d] # <<>>
        /\ now + delay <= MaxWorkerTime
        /\ LET event == Head(prev[d])
               reads == ClockEvents(<<event>>) # <<>>
               clocks == IF reads THEN <<now, now + delay>> ELSE <<>>
               l == event_loop(rec, d, event, clocks)
           IN  /\ reads \/ delay = 0
               /\ rec' = l.recs
               /\ gestures' = [gestures EXCEPT ![d] = @ \o l.fired]
               /\ call' = [call EXCEPT ![d].events = Append(@, event),
                                       ![d].clocks = @ \o clocks]
        /\ prev' = [prev EXCEPT ![d] = Tail(@)]
        /\ now' = now + delay
        /\ ev' = "Worker"
        /\ lifted' = Some(d)

\* Time passes while the workers wait for events.
WorkersWait ==
    /\ now < MaxWorkerTime
    /\ now' = now + 1
    /\ UNCHANGED <<rec, gestures, ev, lifted, call, prev>>

NextWorkers ==
    \/ Worker
    \/ WorkersWait

SpecWorkers == InitWorkers /\ [][NextWorkers]_vars

\* ---- SpecGestures: the gesture table of a device ---------------------------
\* parse_config_file builds the gesture table of a device with
\* merge_gestures from the [global.gestures] and the [device.X.gestures]
\* sections; execute_gesture looks every fired gesture up in it with
\* resolve_action.  In this specification call holds the two sections as
\* read from the file, rec the merged table of the device, lifted the
\* gesture looked up last and gestures what resolve_action returned for it.

\* The name of a gesture (strum serialize), the key of the gesture tables.
GestureName(gesture) ==
    CASE gesture = "SwipeLeft"  -> "swipe_left"
      [] gesture = "SwipeRight" -> "swipe_right"
      [] gesture = "SwipeUp"    -> "swipe_up"
      [] gesture = "SwipeDown"  -> "swipe_down"
      [] gesture = "Tap"        -> "tap"
      [] gesture = "DoubleTap"  -> "double_tap"
      [] gesture = "LongPress"  -> "long_press"
      [] gesture = "PinchIn"    -> "pinch_in"
      [] gesture = "PinchOut"   -> "pinch_out"

\* RawGestureConfig: both fields optional
RawGestureConfig(action, enabled) == [action |-> action, enabled |-> enabled]

\* GestureConfig: action optional, enabled a bool
GestureConfig(action, enabled) == [action |-> action, enabled |-> enabled]

\* The gesture sections a file can hold: tables for some of two names, the
\* action absent, empty or a command.
ConfiguredNames == {"tap", "swipe_left"}

RawGestureMaps(command) ==
    LET entries == {RawGestureConfig(a, e) :
                        a \in {None, Some(""), Some(command)},
                        e \in OptionOf(BOOLEAN)}
    IN  UNION {[names -> entries] : names \in SUBSET ConfiguredNames}

\* The body of the loop of merge_gestures: the entry of a name after the
\* raw entry gc of one section.
merge_entry(entry, gc) ==
    GestureConfig(IF gc.action # None THEN gc.action ELSE entry.action,
                  IF gc.enabled # None THEN Unwrap(gc.enabled) ELSE entry.enabled)

\* merge_gestures where an entry of the device replaces the global one
merge_gestures_device_replaces(global, device) ==
    [name \in (DOMAIN global) \cup (DOMAIN device) |->
        LET fresh == GestureConfig(None, FALSE)
        IN  IF name \in DOMAIN device THEN merge_entry(fresh, device[name])
            ELSE merge_entry(fresh, global[name])]

\* merge_gestures: the entries of global, then those of device, each onto
\* the entry of its name (or_insert: no action, not enabled).
merge_gestures(global, device) ==
    [name \in (DOMAIN global) \cup (DOMAIN device) |->
        LET fresh == GestureConfig(None, FALSE)
            g == IF name \in DOMAIN global
                 THEN merge_entry(fresh, global[name]) ELSE fresh
        IN  IF name \in DOMAIN device THEN merge_entry(g, device[name]) ELSE g]

\* resolve_action: get(name), filter(enabled), and_then(action)
resolve_action(gesture, table) ==
    LET gesture_name == GestureName(gesture)
    IN  IF gesture_name \notin DOMAIN table THEN None
        ELSE IF ~table[gesture_name].enabled THEN None
        ELSE table[gesture_name].action

InitGestures ==
    /\ \E global \in RawGestureMaps("echo global"),
          device \in RawGestureMaps("echo device") :
            call = [global |-> global, device |-> device]
    /\ rec = EmptyMap
    /\ gestures = None
    /\ lifted = None
    /\ ev = "none"
    /\ now = 0
    /\ prev = None

\* parse_config_file builds the table of the device.
MergeGestures ==
    /\ ev = "none"
    /\ rec' = merge_gestures(call.global, call.device)
    /\ ev' = "merge_gestures"
    /\ UNCHANGED <<now, gestures, lifted, call, prev>>

\* execute_gesture looks a fired gesture up.
ResolveAction ==
    /\ ev # "none"
    /\ \E gesture \in GestureType :
        /\ gestures' = resolve_action(gesture, rec)
        /\ lifted' = Some(gesture)
    /\ ev' = "resolve_action"
    /\ UNCHANGED <<rec, now, call, prev>>

NextGestures ==
    \/ MergeGestures
    \/ ResolveAction

SpecGestures == InitGestures /\ [][NextGestures]_vars

\* ---- SpecConfig: the thresholds and the devices of a config file ----------
\* parse_config_file resolves the device sections of the file it has read.
\* In this specification call holds the file as read (RawConfig), lifted
\* the order in which the loop meets the device sections (HashMap::iter
\* fixes none) and rec what parse_config_file returned.

\* The fields of RawThresholds, in the order threshold_fields! names them
ThresholdFields ==
    <<"swipe_time_max", "swipe_distance_min_pct", "angle_tolerance_deg",
      "tap_time_max", "long_press_time_min", "double_tap_interval",
      "tap_distance_max", "double_tap_distance_max", "pinch_threshold_pct">>

FieldNames == {ThresholdFields[i] : i \in 1..Len(ThresholdFields)}

\* RawThresholds with the fields of present set to value and the others
\* absent
RawThresholds(present, value) ==
    [f \in FieldNames |-> IF f \in present THEN Some(value) ELSE None]

\* The [thresholds] sections a file can hold: every field, none, one field
\* only, every field but one (for the first, the fifth and the last field).
ThresholdSections(value) ==
    LET probes == {ThresholdFields[1], ThresholdFields[5], ThresholdFields[9]}
    IN  {RawThresholds(present, value) :
            present \in {FieldNames, {}}
                        \cup {{f} : f \in probes}
                        \cup {FieldNames \ {f} : f \in probes}}

DeviceIds == {"kiosk", "wall"}

\* The value the sections write: the global one, and one per device.
SectionValue(section) ==
    CASE section = "global" -> 1
      [] section = "kiosk"  -> 2
      [] section = "wall"   -> 3

\* RawDevice, without its gestures
RawDevices(id) ==
    [device_usb_id : {None, Some(""), Some("1234:5678")},
     enabled : OptionOf(BOOLEAN),
     thresholds : ThresholdSections(SectionValue(id))]

\* RawConfig, without log_level, log_file and the gestures
RawConfigs ==
    {[global |-> [thresholds |-> g], device |-> d] :
        g \in ThresholdSections(SectionValue("global")),
        d \in UNION {{dev \in [ids -> UNION {RawDevices(id) : id \in ids}] :
                        \A id \in ids : dev[id] \in RawDevices(id)} :
                     ids \in SUBSET DeviceIds}}

\* The orders in which a HashMap with the keys ids can be walked
RECURSIVE Orders(_)
Orders(ids) ==
    IF ids = {} THEN {<<>>}
    ELSE UNION {{<<id>> \o rest : rest \in Orders(ids \ {id})} : id \in ids}

\* merge_with_fallback that prefers the fallback
merge_with_fallback_prefers_fallback(self, fallback) ==
    [f \in FieldNames |-> IF fallback[f] # None THEN fallback[f] ELSE self[f]]

\* merge_with_fallback: self.field.or(fallback.field) for every field
merge_with_fallback(self, fallback) ==
    [f \in FieldNames |-> IF self[f] # None THEN self[f] ELSE fallback[f]]

\* into_validated that reports the first missing field only
into_validated_first_missing(self) ==
    LET missing == SelectSeq(ThresholdFields, LAMBDA f : self[f] = None)
    IN  IF missing # <<>> THEN [ok |-> FALSE, missing |-> <<Head(missing)>>]
        ELSE [ok |-> TRUE, thresholds |-> [f \in FieldNames |-> Unwrap(self[f])]]

\* into_validated: Err with the names of the fields that are None, in
\* their order, or the ValidatedThresholds
into_validated(self) ==
    LET missing == SelectSeq(ThresholdFields, LAMBDA f : self[f] = None)
    IN  IF missing # <<>> THEN [ok |-> FALSE, missing |-> missing]
        ELSE [ok |-> TRUE, thresholds |-> [f \in FieldNames |-> Unwrap(self[f])]]

\* missing.join(", ")
RECURSIVE Join(_)
Join(names) ==
    IF names = <<>> THEN ""
    ELSE IF Len(names) = 1 THEN names[1]
    ELSE names[1] \o ", " \o Join(Tail(names))

\* The loop of parse_config_file over the device sections left in order,
\* devices being the map built so far.
RECURSIVE parse_devices(_, _, _)
parse_devices(raw, order, devices) ==
    IF order = <<>> THEN [ok |-> TRUE, devices |-> devices]
    ELSE LET device_id == Head(order)
             raw_dev == raw.device[device_id]
             enabled == IF raw_dev.enabled # None THEN Unwrap(raw_dev.enabled)
                        ELSE FALSE
             usb_id == IF raw_dev.device_usb_id = Some("") THEN None
                       ELSE raw_dev.device_usb_id
             validated == into_validated(
                              merge_with_fallback(raw_dev.thresholds,
                                                  raw.global.thresholds))
         IN  IF ~enabled THEN parse_devices(raw, Tail(order), devices)
             ELSE IF usb_id = None THEN parse_devices(raw, Tail(order), devices)
             ELSE IF ~validated.ok
             THEN [ok |-> FALSE, device |-> device_id,
                   missing |-> Join(validated.missing)]
             ELSE parse_devices(raw, Tail(order),
                      MapInsert(devices, device_id,
                                [device_usb_id |-> Unwrap(usb_id),
                                 thresholds |-> validated.thresholds]))

\* parse_config_file on the file contents raw, the loop meeting the device
\* sections in order
parse_config_file(raw, order) == parse_devices(raw, order, EmptyMap)

InitConfig ==
    /\ call \in RawConfigs
    /\ rec = None
    /\ lifted = None
    /\ ev = "none"
    /\ gestures = <<>>
    /\ now = 0
    /\ prev = None

\* GestureManager::new parses the file.
ParseConfigFile ==
    /\ ev = "none"
    /\ \E order \in Orders(DOMAIN call.device) :
        /\ rec' = parse_config_file(call, order)
        /\ lifted' = Some(order)
    /\ ev' = "parse_config_file"
    /\ UNCHANGED <<now, gestures, call, prev>>

NextConfig == ParseConfigFile

SpecConfig == InitConfig /\ [][NextConfig]_vars

\* ---- SpecApi: the methods of the recognizer, called one at a time ---------
\* A method is called on the recognizer: m names it, args lists its
\* arguments, out is what it returns.
ApiCall(m, args, r, out) ==
    /\ rec' = r
    /\ gestures' = out
    /\ ev' = m
    /\ call' = args
    /\ UNCHANGED <<now, lifted, prev>>

\* The X values the calls of set_pending_x are made with: the two ends of
\* the range.
ApiXs == {0, XMax}

ApiSetPendingX ==
    \E x \in ApiXs :
        ApiCall("set_pending_x", Some(x), set_pending_x(rec, x), <<>>)

ApiSetPendingY ==
    \E y \in 0..YMax :
        ApiCall("set_pending_y", Some(y), set_pending_y(rec, y), <<>>)

ApiSetTrackingId ==
    \E id \in 0..MaxId :
        ApiCall("set_tracking_id", Some(id), set_tracking_id(rec, id), <<>>)

ApiFlushPending ==
    /\ Len(rec.touch_points) < MaxPoints
    /\ ApiCall("flush_pending", None, flush_pending(rec, now), <<>>)

ApiRecognizeGesture ==
    LET g == recognize_gesture(rec, now)
    IN  ApiCall("recognize_gesture", None, g.rec, g.g)

ApiReset == ApiCall("reset", None, reset(rec), <<>>)

ApiCheckPendingTapExpired ==
    LET e == check_pending_tap_expired(rec, now)
    IN  ApiCall("check_pending_tap_expired", None, e.rec, e.g)

ApiGetPendingTap ==
    ApiCall("get_pending_tap", None, get_pending_tap(rec).rec, <<>>)

ApiTick ==
    /\ now < MaxApiTime
    /\ now' = now + 1
    /\ gestures' = <<>>
    /\ ev' = "Tick"
    /\ call' = None
    /\ UNCHANGED <<rec, lifted, prev>>

NextApi ==
    \/ ApiSetPendingX
    \/ ApiSetPendingY
    \/ ApiSetTrackingId
    \/ ApiFlushPending
    \/ ApiRecognizeGesture
    \/ ApiReset
    \/ ApiCheckPendingTapExpired
    \/ ApiGetPendingTap
    \/ ApiTick

SpecApi == Init /\ [][NextApi]_vars

\* ---- SpecEvents: the device loop, event by event --------------------------
\* event_loop calls process_touch_events once for every event it has
\* classified, on the recognizer run_device_loop built; when reading the
\* device fails it hands the same recognizer to attempt_reconnect, which
\* hands it to a new event_loop once the device is found again.  ev names
\* the kind of the last event; after a FingerUp lifted holds the touch it
\* ended and call the coordinates and tracking id that were buffered and
\* the sample that was current when it arrived.

\* One pass of the loop for event, with the clock reads clocks.
Handle(event, clocks) ==
    /\ LET p == event_loop([device |-> rec], "device", event, clocks)
       IN  /\ rec' = p.recs["device"]
           /\ gestures' = p.fired
    /\ ev' = event[1]
    /\ UNCHANGED prev

EventPositionX ==
    \E x \in ApiXs :
        /\ Handle(PositionXEv(x), <<>>)
        /\ lifted' = None
        /\ call' = None
        /\ UNCHANGED now

EventPositionY ==
    \E y \in 0..YMax :
        /\ Handle(PositionYEv(y), <<>>)
        /\ lifted' = None
        /\ call' = None
        /\ UNCHANGED now

EventTrackingId ==
    \E id \in 0..MaxId :
        /\ Handle(TrackingIdEv(id), <<>>)
        /\ lifted' = None
        /\ call' = None
        /\ UNCHANGED now

EventSynReport ==
    \E d \in Delay :
        /\ now + d <= MaxApiTime
        /\ (IsSome(rec.pending_x) \/ IsSome(rec.pending_y))
               => Len(rec.touch_points) < MaxPoints
        /\ Handle(SynReportEv, <<now, now + d>>)
        /\ now' = now + d
        /\ lifted' = None
        /\ call' = None

EventFingerUp ==
    \E d \in Delay :
        /\ now + d <= MaxApiTime
        /\ Handle(FingerUpEv, <<now, now + d>>)
        /\ now' = now + d
        /\ lifted' = TouchOf(rec)
        /\ call' = Some([pending_x |-> rec.pending_x, pending_y |-> rec.pending_y,
                          pending_tracking_id |-> rec.pending_tracking_id,
                          touch_current |-> rec.touch_current])

\* Reading the device failed and attempt_reconnect found it again (when it
\* does not, the worker ends): the loop goes on with the recognizer as it
\* is.
Reconnect ==
    /\ ev' = "Reconnect"
    /\ gestures' = <<>>
    /\ lifted' = None
    /\ call' = None
    /\ UNCHANGED <<rec, now, prev>>

NextEvents ==
    \/ EventPositionX
    \/ EventPositionY
    \/ EventTrackingId
    \/ EventSynReport
    \/ EventFingerUp
    \/ ApiTick
    \/ Reconnect

SpecEvents == Init /\ [][NextEvents]_vars

\* ---- SpecHost: the device loop and a host that takes pending taps ---------
\* The events of single-finger touches along the X axis are processed one
\* call each, and between two calls the host of the recognizer may call
\* get_pending_tap.
HostGetPendingTap ==
    /\ rec' = get_pending_tap(rec).rec
    /\ gestures' = <<>>
    /\ ev' = "get_pending_tap"
    /\ lifted' = None
    /\ call' = Some(get_pending_tap(rec).taken)
    /\ UNCHANGED <<now, prev>>

NextHost ==
    \/ EventPositionX
    \/ EventSynReport
    \/ EventFingerUp
    \/ ApiTick
    \/ HostGetPendingTap

SpecHost == Init /\ [][NextHost]_vars

\* ---- SpecHold: single-finger touches along the X axis, held any time ------
\* call holds, after a FingerUp that ended a touch, the time from the last
\* commit of the touch to the arrival of the FingerUp, and the tap the
\* recognizer had on record when it arrived.
HoldReport ==
    \E x \in ApiXs, d \in Delay :
        /\ Len(rec.touch_points) < MaxPoints
        /\ Process(Frame(None, Some(x), None), <<now, now + d>>)
        /\ ev' = "SynReport"
        /\ lifted' = None
        /\ call' = None
        /\ UNCHANGED prev

HoldFingerUp ==
    \E d \in Delay :
        /\ Process(<<FingerUpEv>>, <<now, now + d>>)
        /\ ev' = "FingerUp"
        /\ lifted' = TouchOf(rec)
        /\ call' = IF IsSome(rec.touch_current)
                   THEN Some([held |-> now - Unwrap(rec.touch_current).time,
                              pending_tap |-> rec.pending_tap,
                              last_tap_time |-> rec.last_tap_time,
                              last_tap_position |-> rec.last_tap_position])
                   ELSE None
        /\ UNCHANGED prev

NextHold ==
    \/ HoldReport
    \/ HoldFingerUp
    \/ Tick

SpecHold == Init /\ [][NextHold]_vars
\* ---- SpecManager: GestureManager, its workers and the running flag --------
\* start spawns one worker thread for each device it finds and joins them;
\* a worker runs run_device_loop, event_loop and attempt_reconnect; the
\* Ctrl-C handler of main, or stop, clears the running flag at any moment.
\* rec maps each device to its worker:
\*   pc        where the thread stands: "none" (no thread), "spawned"
\*             (run_device_loop), "while" (loop head of event_loop),
\*             "fetch" (inside the blocking fetch_events), "for" (iterating
\*             over a fetched batch), "err" (fetch_events failed), "retry"
\*             (loop head of attempt_reconnect), "sleep" (sleeping, then
\*             find_device), "done" (thread ended),
\*   attempt   the loop variable of attempt_reconnect (0 outside it),
\*   batch     events of the fetched batch not yet visited,
\*   saw_clear the worker has loaded the flag and found it clear.
\* Every return from a nested event_loop or attempt_reconnect unwinds, with
\* no further step, to the end of the thread, so the nesting is not kept.
\* call holds the manager: the running flag, the position of start and the
\* handles it joins.  ev names the last step, lifted its device, and
\* gestures the devices whose event was processed in it.

MAX_RETRIES == 10

MaxBatch == 2

Worker0 == [pc |-> "none", attempt |-> 0, batch |-> 0, saw_clear |-> FALSE]

\* run_device_loop: get_abs_state fails and the thread ends, or event_loop
\* is entered
run_device_loop(w, abs_ok) ==
    IF abs_ok THEN [w EXCEPT !.pc = "while"] ELSE [w EXCEPT !.pc = "done"]

\* event_loop, the loop condition: while running.load()
event_loop_while(w, running) ==
    IF running THEN [w EXCEPT !.pc = "fetch"]
    ELSE [w EXCEPT !.pc = "done", !.saw_clear = TRUE]

\* event_loop, fetch_events returns a batch of n events, or an error
event_loop_fetch(w, ok, n) ==
    IF ok THEN [w EXCEPT !.pc = "for", !.batch = n]
    ELSE [w EXCEPT !.pc = "err"]

\* event_loop, one turn of for event in &events: the batch is over; or the
\* flag is clear and the rest of the batch is left; or the event is
\* classified, processed and its gestures executed
event_loop_for(w, running) ==
    IF w.batch = 0
    THEN [w |-> [w EXCEPT !.pc = "while"], processed |-> FALSE]
    ELSE IF ~running
    THEN [w |-> [w EXCEPT !.pc = "while", !.batch = 0, !.saw_clear = TRUE],
          processed |-> FALSE]
    ELSE [w |-> [w EXCEPT !.batch = w.batch - 1], processed |-> TRUE]

\* event_loop, the Err arm: attempt_reconnect when the flag is set, then
\* break
event_loop_err(w, running) ==
    IF running THEN [w EXCEPT !.pc = "retry", !.attempt = 1]
    ELSE [w EXCEPT !.pc = "done", !.saw_clear = TRUE]

\* attempt_reconnect, the head of for attempt in 1..=MAX_RETRIES
attempt_reconnect_check(w, running) ==
    IF ~running THEN [w EXCEPT !.pc = "done", !.attempt = 0, !.saw_clear = TRUE]
    ELSE [w EXCEPT !.pc = "sleep"]

\* attempt_reconnect that tries once more after the last attempt
attempt_reconnect_find_once_more(w, found) ==
    IF found THEN [w EXCEPT !.pc = "while", !.attempt = 0]
    ELSE IF w.attempt > MAX_RETRIES THEN [w EXCEPT !.pc = "done", !.attempt = 0]
    ELSE [w EXCEPT !.pc = "retry", !.attempt = w.attempt + 1]

\* attempt_reconnect, after the sleep: find_device; a device found starts a
\* new event_loop, the last failure ends the function
attempt_reconnect_find(w, found) ==
    IF found THEN [w EXCEPT !.pc = "while", !.attempt = 0]
    ELSE IF w.attempt = MAX_RETRIES THEN [w EXCEPT !.pc = "done", !.attempt = 0]
    ELSE [w EXCEPT !.pc = "retry", !.attempt = w.attempt + 1]

InitManager ==
    /\ rec = [d \in Devices |-> Worker0]
    /\ call = [running |-> FALSE, start |-> "new", handles |-> {}]
    /\ ev = "new"
    /\ lifted = None
    /\ gestures = <<>>
    /\ now = 0
    /\ prev = <<>>

\* A step of the worker of d that takes it to w.
WorkerStep(d, name, w, processed) ==
    /\ rec' = [rec EXCEPT ![d] = w]
    /\ ev' = name
    /\ lifted' = Some(d)
    /\ gestures' = IF processed THEN <<d>> ELSE <<>>
    /\ UNCHANGED <<call, now, prev>>

\* GestureManager::start up to the joins: the flag is set and a thread is
\* spawned for each device found; with none found start returns
Start ==
    /\ call.start = "new"
    /\ \E found \in SUBSET Devices :
        /\ rec' = [d \in Devices |->
                      IF d \in found THEN [rec[d] EXCEPT !.pc = "spawned"]
                      ELSE rec[d]]
        /\ call' = [running |-> TRUE,
                    start |-> IF found = {} THEN "returned" ELSE "joining",
                    handles |-> found]
    /\ ev' = "start"
    /\ lifted' = None
    /\ gestures' = <<>>
    /\ UNCHANGED <<now, prev>>

\* GestureManager::start, the joins: every thread has ended
JoinHandles ==
    /\ call.start = "joining"
    /\ \A d \in call.handles : rec[d].pc = "done"
    /\ call' = [call EXCEPT !.start = "returned"]
    /\ ev' = "join"
    /\ lifted' = None
    /\ gestures' = <<>>
    /\ UNCHANGED <<rec, now, prev>>

\* GestureManager::stop, and the Ctrl-C handler main installs before start
Stop ==
    /\ call.start # "returned"
    /\ call' = [call EXCEPT !.running = FALSE]
    /\ ev' = "stop"
    /\ lifted' = None
    /\ gestures' = <<>>
    /\ UNCHANGED <<rec, now, prev>>

RunDeviceLoop(d) ==
    /\ rec[d].pc = "spawned"
    /\ \E abs_ok \in BOOLEAN :
        WorkerStep(d, "run_device_loop", run_device_loop(rec[d], abs_ok), FALSE)

LoopCheck(d) ==
    /\ rec[d].pc = "while"
    /\ WorkerStep(d, "while", event_loop_while(rec[d], call.running), FALSE)

\* The device delivers events, or reading it fails; until then the worker
\* stays inside fetch_events.
FetchEvents(d) ==
    /\ rec[d].pc = "fetch"
    /\ \E ok \in BOOLEAN, n \in 0..MaxBatch :
        /\ ~ok => n = 0
        /\ WorkerStep(d, IF ok THEN "fetch_events" ELSE "fetch_error",
                      event_loop_fetch(rec[d], ok, n), FALSE)

ForEvent(d) ==
    /\ rec[d].pc = "for"
    /\ LET l == event_loop_for(rec[d], call.running)
       IN  WorkerStep(d, "for", l.w, l.processed)

ReadError(d) ==
    /\ rec[d].pc = "err"
    /\ WorkerStep(d, "err", event_loop_err(rec[d], call.running), FALSE)

RetryCheck(d) ==
    /\ rec[d].pc = "retry"
    /\ WorkerStep(d, "retry", attempt_reconnect_check(rec[d], call.running), FALSE)

FindDevice(d) ==
    /\ rec[d].pc = "sleep"
    /\ \E found \in BOOLEAN :
        WorkerStep(d, IF found THEN "reconnected" ELSE "not_found",
                   attempt_reconnect_find(rec[d], found), FALSE)

\* The steps a worker takes on its own, whatever the device does.
WorkerRuns(d) ==
    \/ RunDeviceLoop(d)
    \/ LoopCheck(d)
    \/ ForEvent(d)
    \/ ReadError(d)
    \/ RetryCheck(d)
    \/ FindDevice(d)

NextManager ==
    \/ Start
    \/ JoinHandles
    \/ Stop
    \/ \E d \in Devices : WorkerRuns(d)
    \/ \E d \in Devices : FetchEvents(d)

SpecManager == InitManager /\ [][NextManager]_vars

\* The scheduler lets every thread that can take a step take it, and
\* start's join returns once the threads have ended.  Nothing makes a
\* device deliver an event or an error, and nothing makes anyone clear the
\* flag.
FairManager ==
    /\ \A d \in Devices : WF_vars(WorkerRuns(d))
    /\ WF_vars(JoinHandles)

SpecManagerFair == SpecManager /\ FairManager


TypeOK ==
    /\ now \in 0..MaxTime
    /\ \A i \in 1..Len(gestures) : gestures[i] \in GestureType

\* ---- vocabulary of the properties -----------------------------------------
Range(s) == {s[i] : i \in 1..Len(s)}

\* The gesture recognition returned in a FingerUp whose output is gs:
\* recognition never returns Tap, the expiry check returns nothing else.
Recognized(gs) ==
    IF gs # <<>> /\ gs[Len(gs)] # "Tap" THEN Some(gs[Len(gs)]) ELSE None

\* A tap is pending in r and double_tap_interval has elapsed at clock c.
ExpiredAt(r, c) ==
    /\ r.pending_tap
    /\ IsSome(r.last_tap_time)
    /\ c - Unwrap(r.last_tap_time) >= r.thresholds.double_tap_interval

\* The horizontal and the vertical swipe test on the vector (dx, dy).
HorizontalQualifies(r, dx, dy) ==
    /\ Abs(dx) * r.thresholds.swipe_distance_min_pct[2]
           >= (r.x_range[2] - r.x_range[1]) * r.thresholds.swipe_distance_min_pct[1]
    /\ Abs(dy) * r.thresholds.angle_tolerance_deg[2]
           <= Abs(dx) * r.thresholds.angle_tolerance_deg[1]

VerticalQualifies(r, dx, dy) ==
    /\ Abs(dy) * r.thresholds.swipe_distance_min_pct[2]
           >= (r.y_range[2] - r.y_range[1]) * r.thresholds.swipe_distance_min_pct[1]
    /\ Abs(dx) * r.thresholds.angle_tolerance_deg[2]
           <= Abs(dy) * r.thresholds.angle_tolerance_deg[1]

\* The touch t is quick enough and its vector passes one of the swipe tests.
SwipeQualifies(r, t) ==
    /\ t.dt < r.thresholds.swipe_time_max
    /\ HorizontalQualifies(r, t.dx, t.dy) \/ VerticalQualifies(r, t.dx, t.dy)

\* The touch t meets the long-press conditions.
LongPressTouch(r, t) ==
    /\ t.dt >= r.thresholds.long_press_time_min
    /\ Sq(t.dx) + Sq(t.dy) < Sq(r.thresholds.tap_distance_max)

\* The touch t meets the tap conditions.
TapTouch(r, t) ==
    /\ t.dt < r.thresholds.tap_time_max
    /\ Sq(t.dx) + Sq(t.dy) < Sq(r.thresholds.tap_distance_max)

\* The step left the double-tap bookkeeping as it was, but for the flag an
\* expiry may have cleared.
NoTapRecorded ==
    /\ rec'.last_tap_time = rec.last_tap_time
    /\ rec'.last_tap_position = rec.last_tap_position
    /\ rec'.pending_tap => rec.pending_tap

\* ---- C2 -------------------------------------------------------------------
\* C2: a pending tap yields exactly one Tap.  The expiry check of a call
\* returns Tap exactly when the flag is set and double_tap_interval has
\* elapsed since the tap was recorded, and it then clears the flag; an
\* earlier check returns nothing and keeps the flag; with the flag clear
\* (every later check) it returns nothing.  The check of a SynReport reads
\* the clock at the end of the call, the check of a FingerUp at its start.
C2_SolitaryTapExpiresOnce ==
    [][/\ ev' = "SynReport" =>
            /\ ("Tap" \in Range(gestures')) <=> ExpiredAt(rec, now')
            /\ Len(gestures') <= 1
            /\ rec'.pending_tap <=> (rec.pending_tap /\ ~ExpiredAt(rec, now'))
            /\ rec'.last_tap_time = rec.last_tap_time
       /\ ev' = "FingerUp" =>
            /\ (gestures' # <<>> /\ gestures'[1] = "Tap") <=> ExpiredAt(rec, now)
            /\ Len(SelectSeq(gestures', LAMBDA g : g = "Tap")) <= 1
      ]_vars

\* A SynReport with no touch in progress returned the Tap of a solitary tap.
C2_Witness ==
    /\ ev = "SynReport"
    /\ gestures = <<"Tap">>
    /\ ~rec.pending_tap
    /\ rec.touch_points = <<>>

\* ---- C3 -------------------------------------------------------------------
\* C3: the handling of one FingerUp never emits both Tap and DoubleTap.
C3_NoTapWithDoubleTap ==
    ev = "FingerUp" => ~("Tap" \in Range(gestures) /\ "DoubleTap" \in Range(gestures))

\* A FingerUp whose expiry check returned Tap and whose recognition found a
\* candidate tap.
C3_Witness ==
    /\ ev = "FingerUp"
    /\ gestures = <<"Tap">>
    /\ IsSome(lifted)
    /\ rec.pending_tap

\* ---- C4 -------------------------------------------------------------------
\* C4 as stated: a touch that meets the long-press conditions is recognized
\* as LongPress and records no pending tap.
C4_Original ==
    [][(ev' = "FingerUp" /\ IsSome(TouchOf(rec))
            /\ LongPressTouch(rec, Unwrap(TouchOf(rec))))
        => (Recognized(gestures') = Some("LongPress") /\ NoTapRecorded)]_vars

\* C4 amended: a touch that meets the long-press conditions is recognized as
\* LongPress unless pinch detection or swipe detection yields a gesture for
\* it, which is then returned; it is never Tap or DoubleTap and records no
\* pending tap.
C4_LongPressUnlessPreempted ==
    [][(ev' = "FingerUp" /\ IsSome(TouchOf(rec))
            /\ LongPressTouch(rec, Unwrap(TouchOf(rec))))
        => LET t == Unwrap(TouchOf(rec))
               pinch == IF t.fingers >= 2 THEN detect_pinch(rec) ELSE None
           IN  /\ NoTapRecorded
               /\ Recognized(gestures') \notin {Some("Tap"), Some("DoubleTap")}
               /\ IF IsSome(pinch) THEN Recognized(gestures') = pinch
                  ELSE IF SwipeQualifies(rec, t)
                       THEN Recognized(gestures') \in {Some(g) : g \in SwipeTypes}
                  ELSE Recognized(gestures') = Some("LongPress")]_vars

\* A FingerUp ended a touch that meets the long-press conditions and
\* LongPress was returned.
C4_Witness ==
    /\ ev = "FingerUp"
    /\ IsSome(lifted)
    /\ LongPressTouch(rec, Unwrap(lifted))
    /\ Recognized(gestures) = Some("LongPress")

\* ---- C6 -------------------------------------------------------------------
\* C6: for a single-finger motion with dt < swipe_time_max the recognized
\* gesture is SwipeRight/SwipeLeft by the sign of dx when the horizontal
\* test holds, otherwise SwipeDown/SwipeUp by the sign of dy when the
\* vertical test holds, otherwise no swipe.
C6_SwipeDirection ==
    (ev = "FingerUp" /\ IsSome(lifted)) =>
        LET t == Unwrap(lifted)
            g == Recognized(gestures)
        IN  (t.fingers = 1 /\ t.dt < rec.thresholds.swipe_time_max) =>
                IF HorizontalQualifies(rec, t.dx, t.dy)
                THEN \/ t.dx > 0 /\ g = Some("SwipeRight")
                     \/ t.dx < 0 /\ g = Some("SwipeLeft")
                ELSE IF VerticalQualifies(rec, t.dx, t.dy)
                THEN \/ t.dy > 0 /\ g = Some("SwipeDown")
                     \/ t.dy < 0 /\ g = Some("SwipeUp")
                ELSE g \notin {Some(s) : s \in SwipeTypes}

\* A single-finger motion that passes both tests was reported as horizontal.
C6_Witness ==
    /\ ev = "FingerUp"
    /\ IsSome(lifted)
    /\ Unwrap(lifted).fingers = 1
    /\ Unwrap(lifted).dt < rec.thresholds.swipe_time_max
    /\ HorizontalQualifies(rec, Unwrap(lifted).dx, Unwrap(lifted).dy)
    /\ VerticalQualifies(rec, Unwrap(lifted).dx, Unwrap(lifted).dy)
    /\ Recognized(gestures) \in {Some("SwipeRight"), Some("SwipeLeft")}

\* ---- C1 -------------------------------------------------------------------
\* The call that has just returned was for a single-finger touch that meets
\* the tap conditions, after a touch (prev) that was one too, closer to it
\* than double_tap_distance_max and lifted less than double_tap_interval
\* before it.
TwoTaps ==
    /\ ev = "Touch"
    /\ IsSome(prev)
    /\ IsSome(lifted)
    /\ Unwrap(lifted).fingers = 1
    /\ TapTouch(rec, Unwrap(lifted))
    /\ LET c == Unwrap(call)
           p == Unwrap(prev)
           current == Unwrap(c.before.touch_current)
       IN  /\ Sq(current.x - p.x) + Sq(current.y - p.y)
                  < Sq(rec.thresholds.double_tap_distance_max)
           /\ LiftClock(c) - p.time < rec.thresholds.double_tap_interval

\* The number of DoubleTap the two touches emitted.
DoubleTaps ==
    (IF Unwrap(prev).double THEN 1 ELSE 0)
    + Len(SelectSeq(gestures, LAMBDA g : g = "DoubleTap"))

FirstTapPending ==
    LET c == Unwrap(call)
        p == Unwrap(prev)
    IN  /\ c.pre.pending_tap
        /\ c.pre.last_tap_time = Some(p.time)
        /\ c.pre.last_tap_position = Some(<<p.x, p.y>>)

WithoutTaps(gs) == SelectSeq(gs, LAMBDA g : g \notin {"Tap", "DoubleTap"})

\* What a fresh recognizer of the same device returns for the call c.
FreshRun(c) ==
    process_touch_events(new(c.pre.thresholds, c.pre.x_range, c.pre.y_range),
                         c.batch, c.clocks)

\* The session fields of a recognizer.
Session(r) ==
    <<r.touch_start, r.touch_current, r.touch_points, r.active_touches,
      r.pending_x, r.pending_y, r.pending_tracking_id>>

\* C7: a touch fed to a recognizer that has handled touches before is
\* classified as by a fresh recognizer, but for Tap and DoubleTap, which
\* depend on the retained bookkeeping: the other gestures are the same, the
\* session fields end the same, and with no tap bookkeeping retained the
\* whole result is the same.
C7_NoLeakAcrossTouches ==
    ev = "Touch" =>
        LET c == Unwrap(call)
            fresh == FreshRun(c)
        IN  /\ WithoutTaps(gestures) = WithoutTaps(fresh.gestures)
            /\ Session(rec) = Session(fresh.rec)
            /\ (c.pre.last_tap_time = None /\ ~c.pre.pending_tap)
                   => (gestures = fresh.gestures /\ rec = fresh.rec)

\* A recognizer that has handled a tap before has classified a swipe.
C7_Witness ==
    /\ ev = "Touch"
    /\ IsSome(Unwrap(call).pre.last_tap_time)
    /\ Recognized(gestures) \in {Some(g) : g \in SwipeTypes}
    /\ gestures # FreshRun(Unwrap(call)).gestures

\* ---- C9 -------------------------------------------------------------------
\* C9: the gestures are listed in the order of the events: a Tap of a
\* SynReport comes before what the FingerUp emits; the expiry check of the
\* FingerUp runs before its recognition: its Tap comes before the
\* recognized gesture and recognition sees the flag it cleared; the
\* session is reset after both: recognition has seen the touch, and the
\* session is empty afterwards.
C9_ExpiryThenRecognitionThenReset ==
    ev = "Touch" =>
        LET c == Unwrap(call)
            t == Unwrap(lifted)
            n == Len(gestures)
        IN  /\ \A i \in 1..(n - 1) : gestures[i] = "Tap"
            /\ ExpiredAt(c.pre, c.clocks[2]) => (n >= 1 /\ gestures[1] = "Tap")
            /\ ExpiredAt(c.before, ExpiryClock(c)) =>
                   /\ n >= 1
                   /\ gestures[IF IsSome(Recognized(gestures)) THEN n - 1 ELSE n]
                          = "Tap"
                   /\ (TapTouch(rec, t) /\ ~SwipeQualifies(rec, t)) =>
                          /\ Recognized(gestures) = None
                          /\ rec.pending_tap
                          /\ rec.last_tap_time = Some(LiftClock(c))
            /\ SwipeQualifies(rec, t) =>
                   Recognized(gestures) \in {Some(g) : g \in SwipeTypes}
            /\ Session(rec) = Session(new(rec.thresholds, rec.x_range, rec.y_range))

\* The expiry check of a FingerUp returned Tap and its recognition a swipe.
C9_Witness ==
    /\ ev = "Touch"
    /\ ExpiredAt(Unwrap(call).before, ExpiryClock(Unwrap(call)))
    /\ Len(gestures) = 2
    /\ gestures[1] = "Tap"
    /\ gestures[2] \in SwipeTypes

\* ---- C10 ------------------------------------------------------------------
\* C10 as stated: a batch of one touch emits zero or one gesture.
C10_Original == ev = "Touch" => Len(gestures) <= 1

\* C10 amended: a batch of one touch emits at most two gestures, at most
\* one of them other than Tap.
C10_AtMostTwoGestures ==
    ev = "Touch" => /\ Len(gestures) <= 2
                    /\ Len(SelectSeq(gestures, LAMBDA g : g # "Tap")) <= 1

\* The batch of one touch has emitted two gestures.
C10_Witness ==
    /\ ev = "Touch"
    /\ Len(gestures) = 2

\* ---- C5 -------------------------------------------------------------------
\* C5 as stated: a touch lifted with two or more tracking ids active is
\* never recognized as a swipe.
C5_Original ==
    (ev = "FingerUp" /\ IsSome(lifted) /\ Unwrap(lifted).fingers >= 2)
        => Recognized(gestures) \notin {Some(g) : g \in SwipeTypes}

\* C5 amended: with two or more tracking ids active, a gesture that pinch
\* detection yields is the one recognized, also when the start-to-current
\* vector qualifies as a swipe; when pinch detection yields none, a vector
\* that qualifies as a swipe is recognized as a swipe.  A pinch is
\* recognized only with two or more tracking ids active.
C5_PinchResultPreemptsSwipe ==
    (ev = "FingerUp" /\ IsSome(lifted)) =>
        LET t == Unwrap(lifted)
        IN  /\ (t.fingers >= 2 /\ IsSome(t.pinch))
                   => Recognized(gestures) = t.pinch
            /\ (t.fingers >= 2 /\ t.pinch = None /\ SwipeQualifies(rec, t))
                   => Recognized(gestures) \in {Some(g) : g \in SwipeTypes}
            /\ Recognized(gestures) \in {Some(g) : g \in PinchTypes}
                   => t.fingers >= 2

\* A pinch has been recognized for a touch whose start-to-current vector
\* qualifies as a swipe.
C5_Witness ==
    /\ ev = "FingerUp"
    /\ IsSome(lifted)
    /\ Unwrap(lifted).fingers >= 2
    /\ SwipeQualifies(rec, Unwrap(lifted))
    /\ Recognized(gestures) \in {Some(g) : g \in PinchTypes}

\* ---- C8 -------------------------------------------------------------------
\* C8: reset empties the session (start, current, samples, active ids,
\* buffered X and Y) and leaves the tap bookkeeping, the thresholds and the
\* ranges as they were; recognize_gesture called right after it returns
\* nothing and changes nothing.
C8_ResetFrame ==
    [][/\ ev' = "reset" =>
             /\ rec'.touch_start = None
             /\ rec'.touch_current = None
             /\ rec'.touch_points = <<>>
             /\ DOMAIN rec'.active_touches = {}
             /\ rec'.pending_x = None
             /\ rec'.pending_y = None
             /\ rec'.last_tap_time = rec.last_tap_time
             /\ rec'.last_tap_position = rec.last_tap_position
             /\ rec'.pending_tap = rec.pending_tap
             /\ rec'.thresholds = rec.thresholds
             /\ rec'.x_range = rec.x_range
             /\ rec'.y_range = rec.y_range
       /\ (ev = "reset" /\ ev' = "recognize_gesture") =>
             /\ gestures' = <<>>
             /\ rec' = rec
      ]_vars

\* reset has been called on a recognizer that holds a pending tap, and
\* recognize_gesture after it.
C8_Witness ==
    /\ ev = "recognize_gesture"
    /\ rec.pending_tap
    /\ IsSome(rec.last_tap_position)
    /\ rec.touch_start = None
    /\ rec.touch_points = <<>>
    /\ gestures = <<>>

\* ---- C11 ------------------------------------------------------------------
\* C11 as stated: a SynReport or FingerUp whose expiry check runs
\* double_tap_interval or more after the pending tap was recorded returns
\* Tap and leaves the flag clear.
C11_Original ==
    [][/\ (ev' = "SynReport" /\ ExpiredAt(rec, now')) =>
             ("Tap" \in Range(gestures') /\ ~rec'.pending_tap)
       /\ (ev' = "FingerUp" /\ ExpiredAt(rec, now)) =>
             ("Tap" \in Range(gestures') /\ ~rec'.pending_tap)
      ]_vars

\* C11 amended: such an event returns Tap first, whatever touch is in
\* progress; a SynReport leaves the flag clear; a FingerUp leaves it clear
\* unless its recognition records the lifted touch as a new pending tap,
\* at the clock of recognition.
C11_ExpiredTapEmitted ==
    [][/\ (ev' = "SynReport" /\ ExpiredAt(rec, now')) =>
             /\ gestures' = <<"Tap">>
             /\ ~rec'.pending_tap
       /\ (ev' = "FingerUp" /\ ExpiredAt(rec, now)) =>
             /\ gestures' # <<>>
             /\ gestures'[1] = "Tap"
             /\ rec'.pending_tap =>
                    /\ IsSome(lifted')
                    /\ TapTouch(rec, Unwrap(lifted'))
                    /\ gestures' = <<"Tap">>
                    /\ rec'.last_tap_time = Some(now')
      ]_vars

\* The SynReport of a touch in progress returned the Tap of an earlier tap.
C11_Witness ==
    /\ ev = "SynReport"
    /\ gestures = <<"Tap">>
    /\ rec.touch_points # <<>>
    /\ ~rec.pending_tap

\* ---- C12 ------------------------------------------------------------------
\* The samples of the session of r: what a commit may change besides the
\* buffers.
Samples(r) ==
    <<r.touch_start, r.touch_current, r.touch_points, r.active_touches>>

\* C12: an X or a Y is buffered exactly from its set_pending call to the
\* next commit or reset; the commit of a SynReport appends exactly one
\* sample when an X or a Y is buffered and otherwise leaves the samples as
\* they are; the buffers are empty after it, and the expiry check that
\* follows it in the SynReport changes none of this.
C12_CommitAppendsOne ==
    [][/\ ev' = "set_pending_x" =>
             (IsSome(rec'.pending_x) /\ rec'.pending_y = rec.pending_y)
       /\ ev' = "set_pending_y" =>
             (IsSome(rec'.pending_y) /\ rec'.pending_x = rec.pending_x)
       /\ ev' = "reset" => (rec'.pending_x = None /\ rec'.pending_y = None)
       /\ ev' \in {"set_tracking_id", "recognize_gesture",
                   "check_pending_tap_expired", "Tick"} =>
             (rec'.pending_x = rec.pending_x /\ rec'.pending_y = rec.pending_y)
       /\ ev' = "check_pending_tap_expired" => Samples(rec') = Samples(rec)
       /\ ev' = "flush_pending" =>
             /\ rec'.pending_x = None
             /\ rec'.pending_y = None
             /\ IF IsSome(rec.pending_x) \/ IsSome(rec.pending_y)
                THEN /\ Len(rec'.touch_points) = Len(rec.touch_points) + 1
                     /\ SubSeq(rec'.touch_points, 1, Len(rec.touch_points))
                            = rec.touch_points
                ELSE Samples(rec') = Samples(rec)
      ]_vars

\* A commit with only a Y buffered has appended the second sample.
C12_Witness ==
    /\ ev = "flush_pending"
    /\ Len(rec.touch_points) = 2
    /\ rec.touch_points[2].x = rec.touch_points[1].x
    /\ rec.touch_points[2].y # rec.touch_points[1].y
    /\ rec.pending_x = None
    /\ rec.pending_y = None

\* ---- C13 ------------------------------------------------------------------
\* C13: a buffer holds the value of the last set_pending call of its axis,
\* whatever it held before; the sample a commit builds has the buffered X,
\* or without one the x of touch_current, or without that 0; its y
\* likewise; its tracking id is the pending tracking id, which is the
\* argument of the last set_tracking_id since the reset.
C13_CommittedSample ==
    [][/\ ev' = "set_pending_x" => rec'.pending_x = call'
       /\ ev' = "set_pending_y" => rec'.pending_y = call'
       /\ ev' = "set_tracking_id" => rec'.pending_tracking_id = Unwrap(call')
       /\ ev' \in {"set_pending_x", "set_pending_y", "flush_pending",
                   "recognize_gesture", "check_pending_tap_expired", "Tick"} =>
             rec'.pending_tracking_id = rec.pending_tracking_id
       /\ (ev' = "flush_pending"
           /\ Len(rec'.touch_points) > Len(rec.touch_points)) =>
             LET point == rec'.touch_points[Len(rec'.touch_points)]
             IN  /\ point.x = IF IsSome(rec.pending_x) THEN Unwrap(rec.pending_x)
                              ELSE IF IsSome(rec.touch_current)
                                   THEN Unwrap(rec.touch_current).x
                                   ELSE 0
                 /\ point.y = IF IsSome(rec.pending_y) THEN Unwrap(rec.pending_y)
                              ELSE IF IsSome(rec.touch_current)
                                   THEN Unwrap(rec.touch_current).y
                                   ELSE 0
                 /\ point.tracking_id = rec.pending_tracking_id
                 /\ point.time = now
      ]_vars

\* The first commit of a touch had only a Y buffered: its x is 0.
C13_Witness ==
    /\ ev = "flush_pending"
    /\ Len(rec.touch_points) = 1
    /\ rec.touch_points[1].x = 0
    /\ rec.touch_points[1].y = YMax
    /\ rec.touch_points[1].tracking_id = MaxId

\* ---- C14 ------------------------------------------------------------------
\* touch_start of r is the first sample of touch_points and touch_current
\* the last, and both are absent when there is no sample.
StartAndCurrent(r) ==
    IF r.touch_points = <<>>
    THEN r.touch_start = None /\ r.touch_current = None
    ELSE /\ r.touch_start = Some(r.touch_points[1])
         /\ r.touch_current = Some(r.touch_points[Len(r.touch_points)])

\* C14: in every state the methods reach, touch_start is the first sample
\* and touch_current the last; a step changes touch_points only by
\* appending one sample, in a commit, or by emptying it, in a reset; a
\* commit that follows another leaves touch_start as it was.
C14_SamplesOnlyAppended ==
    /\ StartAndCurrent(rec)
    /\ [][/\ StartAndCurrent(rec')
          /\ \/ rec'.touch_points = rec.touch_points
             \/ /\ ev' = "flush_pending"
                /\ \E p \in {rec'.touch_current} :
                       /\ IsSome(p)
                       /\ rec'.touch_points
                              = Append(rec.touch_points, Unwrap(p))
                /\ rec.touch_points # <<>> => rec'.touch_start = rec.touch_start
             \/ /\ ev' = "reset"
                /\ rec'.touch_points = <<>>
         ]_vars

\* A second commit has left touch_start at the first sample.
C14_Witness ==
    /\ ev = "flush_pending"
    /\ Len(rec.touch_points) = 2
    /\ rec.touch_points[1] # rec.touch_points[2]
    /\ rec.touch_start = Some(rec.touch_points[1])
    /\ rec.touch_current = Some(rec.touch_points[2])

\* ---- C15 ------------------------------------------------------------------
\* C15: the keys of active_touches are the tracking ids that occur in
\* touch_points, and the sample stored for a key is the last sample of
\* touch_points with that tracking id.
C15_ActiveTouchesLatest ==
    LET tp == rec.touch_points
    IN  /\ DOMAIN rec.active_touches
               = {tp[i].tracking_id : i \in 1..Len(tp)}
        /\ \A id \in DOMAIN rec.active_touches :
               \E i \in 1..Len(tp) :
                   /\ tp[i].tracking_id = id
                   /\ rec.active_touches[id] = tp[i]
                   /\ \A j \in (i + 1)..Len(tp) : tp[j].tracking_id # id

\* Two samples of one tracking id were committed at different places.
C15_Witness ==
    /\ ev = "flush_pending"
    /\ Len(rec.touch_points) = 2
    /\ rec.touch_points[1].tracking_id = rec.touch_points[2].tracking_id
    /\ rec.touch_points[1].x # rec.touch_points[2].x
    /\ DOMAIN rec.active_touches = {rec.touch_points[2].tracking_id}

\* ---- C16 ------------------------------------------------------------------
\* The step is a recognition that returned DoubleTap.
DoubleTapFired == ev' = "recognize_gesture" /\ gestures' = <<"DoubleTap">>

\* The step is an expiry check that returned Tap.
TapExpired == ev' = "check_pending_tap_expired" /\ gestures' = <<"Tap">>

\* The step cleared last_tap_time or last_tap_position.
LastTapCleared ==
    \/ IsSome(rec.last_tap_time) /\ rec'.last_tap_time = None
    \/ IsSome(rec.last_tap_position) /\ rec'.last_tap_position = None

\* The step cleared pending_tap.
FlagCleared == rec.pending_tap /\ ~rec'.pending_tap

\* No field of the double-tap bookkeeping of r is set.
BookkeepingClear(r) ==
    /\ r.last_tap_time = None
    /\ r.last_tap_position = None
    /\ ~r.pending_tap

\* C16 as stated: a DoubleTap firing and a tap expiring as Tap leave all
\* three fields clear, and no other step clears any of them.
C16_Original ==
    [][/\ (DoubleTapFired \/ TapExpired) => BookkeepingClear(rec')
       /\ (LastTapCleared \/ FlagCleared) => (DoubleTapFired \/ TapExpired)
      ]_vars

\* C16 amended: a DoubleTap firing leaves all three fields clear and is the
\* only step that clears last_tap_time or last_tap_position; a tap expiring
\* as Tap clears pending_tap and leaves last_tap_time and
\* last_tap_position set as they were, and so does get_pending_tap; no
\* other step clears pending_tap.
C16_BookkeepingCleared ==
    [][/\ DoubleTapFired => BookkeepingClear(rec')
       /\ LastTapCleared => DoubleTapFired
       /\ FlagCleared =>
             (DoubleTapFired \/ TapExpired \/ ev' = "get_pending_tap")
       /\ TapExpired =>
             /\ ~rec'.pending_tap
             /\ IsSome(rec'.last_tap_time)
             /\ rec'.last_tap_time = rec.last_tap_time
             /\ rec'.last_tap_position = rec.last_tap_position
       /\ ev' = "get_pending_tap" =>
             /\ ~rec'.pending_tap
             /\ rec'.last_tap_time = rec.last_tap_time
             /\ rec'.last_tap_position = rec.last_tap_position
      ]_vars

\* A tap has expired as Tap and its time and position are still recorded.
C16_Witness ==
    /\ ev = "check_pending_tap_expired"
    /\ gestures = <<"Tap">>
    /\ ~rec.pending_tap
    /\ IsSome(rec.last_tap_time)
    /\ IsSome(rec.last_tap_position)

\* ---- C17 ------------------------------------------------------------------
\* C17 as stated: whenever the recognition of a FingerUp gets to swipe
\* detection (a start and a current sample exist and pinch detection has
\* yielded nothing), touch_start and touch_current are samples of one
\* tracking id.
C17_Original ==
    [][(/\ ev' = "FingerUp"
        /\ IsSome(lifted')
        /\ Unwrap(lifted').pinch = None)
           => Unwrap(rec.touch_start).tracking_id
                  = Unwrap(rec.touch_current).tracking_id
      ]_vars

\* ---- C18 ------------------------------------------------------------------
\* The square of the initial separation of the samples tp: from the first
\* sample to the earliest later sample of another tracking id.
InitialSeparation2(tp) ==
    LET i == CHOOSE k \in 2..Len(tp) :
                 /\ tp[k].tracking_id # tp[1].tracking_id
                 /\ \A j \in 2..(k - 1) : tp[j].tracking_id = tp[1].tracking_id
    IN  Sq(tp[1].x - tp[i].x) + Sq(tp[1].y - tp[i].y)

\* The square of the final separation of the samples tp: from the last
\* sample to the nearest sample before it of another tracking id.
FinalSeparation2(tp) ==
    LET n == Len(tp)
        i == CHOOSE k \in 1..(n - 1) :
                 /\ tp[k].tracking_id # tp[n].tracking_id
                 /\ \A j \in (k + 1)..(n - 1) :
                        tp[j].tracking_id = tp[n].tracking_id
    IN  Sq(tp[n].x - tp[i].x) + Sq(tp[n].y - tp[i].y)

\* final < initial - initial * pct and final > initial + initial * pct, on
\* the squares of the separations, pct being the fraction pct[1] / pct[2].
BelowBand(initial2, final2, pct) ==
    /\ pct[1] < pct[2]
    /\ final2 * Sq(pct[2]) < initial2 * Sq(pct[2] - pct[1])

AboveBand(initial2, final2, pct) ==
    final2 * Sq(pct[2]) > initial2 * Sq(pct[2] + pct[1])

\* C18: for a touch lifted with four or more samples and two or more
\* tracking ids, pinch detection yields PinchIn exactly when the final
\* separation is below the band around the initial one, PinchOut exactly
\* when it is above, and otherwise nothing; what it yields is recognized.
C18_PinchBand ==
    [][(/\ ev' = "FingerUp"
        /\ Len(rec.touch_points) >= 4
        /\ Cardinality({rec.touch_points[i].tracking_id :
                            i \in 1..Len(rec.touch_points)}) >= 2)
           => LET initial2 == InitialSeparation2(rec.touch_points)
                  final2 == FinalSeparation2(rec.touch_points)
                  pct == rec.thresholds.pinch_threshold_pct
                  pinch == Unwrap(lifted').pinch
              IN  /\ pinch = Some("PinchIn")
                         <=> BelowBand(initial2, final2, pct)
                  /\ pinch = Some("PinchOut")
                         <=> (AboveBand(initial2, final2, pct)
                              /\ ~BelowBand(initial2, final2, pct))
                  /\ pinch \in {None, Some("PinchIn"), Some("PinchOut")}
                  /\ IsSome(pinch) => Recognized(gestures') = pinch
      ]_vars

\* A touch whose fingers closed in has been recognized as PinchIn.
C18_Witness ==
    /\ ev = "FingerUp"
    /\ IsSome(lifted)
    /\ Unwrap(lifted).pinch = Some("PinchIn")
    /\ gestures = <<"PinchIn">>

\* ---- C19 ------------------------------------------------------------------
\* C19: on any sample history and any active_touches map pinch detection
\* returns: nothing when there are fewer than four samples, fewer than two
\* active tracking ids, or only samples of one tracking id; nothing or a
\* pinch otherwise.
C19_PinchDeclines ==
    ev = "detect_pinch" =>
        LET tp == rec.touch_points
        IN  /\ gestures \in {None, Some("PinchIn"), Some("PinchOut")}
            /\ (\/ Len(tp) < 4
                \/ Cardinality(DOMAIN rec.active_touches) < 2
                \/ Cardinality({tp[i].tracking_id : i \in 1..Len(tp)}) < 2)
                   => gestures = None

\* Pinch detection has declined three samples whose fingers moved apart,
\* with two tracking ids active.
C19_Witness ==
    /\ ev = "detect_pinch"
    /\ gestures = None
    /\ Len(rec.touch_points) = 3
    /\ Cardinality(DOMAIN rec.active_touches) = 2
    /\ rec.touch_points[1].tracking_id # rec.touch_points[2].tracking_id
    /\ rec.touch_points[1].x = rec.touch_points[2].x
    /\ rec.touch_points[3].tracking_id = rec.touch_points[1].tracking_id
    /\ rec.touch_points[3].x # rec.touch_points[2].x

\* ---- C20 ------------------------------------------------------------------
\* C20 as stated: with an axis of span 0 no touch is recognized as a swipe
\* along that axis.
C20_Original ==
    ev = "FingerUp" =>
        /\ rec.x_range[1] = rec.x_range[2] =>
               Recognized(gestures) \notin {Some("SwipeLeft"), Some("SwipeRight")}
        /\ rec.y_range[1] = rec.y_range[2] =>
               Recognized(gestures) \notin {Some("SwipeUp"), Some("SwipeDown")}

\* ---- C21 ------------------------------------------------------------------
\* The result of the call c made as two calls, for the first i events and
\* for the rest, each event reading the clock values it read in c.
SplitRun(c, i) ==
    LET a == SubSeq(c.batch, 1, i)
        b == SubSeq(c.batch, i + 1, Len(c.batch))
        na == 2 * Len(ClockEvents(a))
        pa == process_touch_events(c.pre, a, SubSeq(c.clocks, 1, na))
        pb == process_touch_events(pa.rec, b,
                                   SubSeq(c.clocks, na + 1, Len(c.clocks)))
    IN  [rec |-> pb.rec, gestures |-> pa.gestures \o pb.gestures]

\* The result of one call for each event of events, as the device loop
\* makes them, from the recognizer r and the gestures collected so far.
RECURSIVE OneByOne(_, _, _, _)
OneByOne(r, events, clocks, collected) ==
    IF events = <<>> THEN [rec |-> r, gestures |-> collected]
    ELSE LET n == 2 * Len(ClockEvents(<<Head(events)>>))
             p == process_touch_events(r, <<Head(events)>>,
                                       SubSeq(clocks, 1, n))
         IN  OneByOne(p.rec, Tail(events),
                      SubSeq(clocks, n + 1, Len(clocks)),
                      collected \o p.gestures)

\* C21: the events of a call handled in two calls, split at any point, or
\* in one call for each event, give the gestures of the one call, in the
\* same order, and the same recognizer.
C21_SplitBatches ==
    ev = "Touch" =>
        LET c == Unwrap(call)
            whole == [rec |-> rec, gestures |-> gestures]
        IN  /\ \A i \in 0..Len(c.batch) : SplitRun(c, i) = whole
            /\ OneByOne(c.pre, c.batch, c.clocks, <<>>) = whole

\* A call for two reports and a FingerUp has returned two gestures, the
\* first of them from a SynReport.
C21_Witness ==
    /\ ev = "Touch"
    /\ Len(Unwrap(call).batch) = 7
    /\ Len(gestures) = 2
    /\ SplitRun(Unwrap(call), 3).gestures = <<"Tap">> \o <<gestures[2]>>
    /\ process_touch_events(Unwrap(call).pre, SubSeq(Unwrap(call).batch, 1, 3),
                            SubSeq(Unwrap(call).clocks, 1, 2)).gestures
           = <<"Tap">>
\* ---- C22 ------------------------------------------------------------------
\* What one call of process_touch_events for all the events the worker of
\* device d has handled, with the same clock reads, makes of the recognizer
\* its run_device_loop built.
Alone(d) == process_touch_events(call[d].start, call[d].events, call[d].clocks)

\* C22: however the steps of the workers of two devices interleave, the
\* gestures fired for each device and the recognizer of its worker are
\* those its own events give when they are processed alone.
C22_WorkersIndependent ==
    \A d \in Devices : Alone(d) = [rec |-> rec[d], gestures |-> gestures[d]]

\* Both workers are in the middle of a touch, the left one in its second
\* touch with a Tap fired for its first, the right one with its first
\* sample committed and its swipe still to finish.
C22_Witness ==
    /\ ev = "Worker"
    /\ gestures["left"] = <<"Tap">>
    /\ rec["left"].touch_start # None
    /\ rec["right"].touch_start # None
    /\ Len(rec["right"].touch_points) = 1
    /\ Len(prev["right"]) = 3
    /\ gestures["right"] = <<>>

\* ---- C23 ------------------------------------------------------------------
\* C23: resolve_action returns the action text of the entry under the name
\* of the gesture exactly when that entry exists, is enabled and has a
\* non-empty action text, and nothing otherwise.
C23_Original ==
    ev = "resolve_action" =>
        LET name == GestureName(Unwrap(lifted))
            usable == /\ name \in DOMAIN rec
                      /\ rec[name].enabled
                      /\ rec[name].action # None
                      /\ rec[name].action # Some("")
        IN  gestures = IF usable THEN rec[name].action ELSE None

\* ---- C27 ------------------------------------------------------------------
\* The field a raw section sets for a name, if it has the name and sets it.
SetIn(section, name, field) ==
    IF name \in DOMAIN section THEN section[name][field] ELSE None

\* C27: the table of a device has every name of the global and of the
\* device section; the action of a name is the device's when the device
\* sets one and the global one otherwise, its enabled is the device's when
\* the device sets it, else the global one, and false when neither sets it.
C27_GesturesMerged ==
    ev = "merge_gestures" =>
        /\ DOMAIN rec = (DOMAIN call.global) \cup (DOMAIN call.device)
        /\ \A name \in DOMAIN rec :
            LET da == SetIn(call.device, name, "action")
                de == SetIn(call.device, name, "enabled")
                ga == SetIn(call.global, name, "action")
                ge == SetIn(call.global, name, "enabled")
            IN  /\ rec[name].action = IF da # None THEN da ELSE ga
                /\ rec[name].enabled = IF de # None THEN Unwrap(de)
                                       ELSE IF ge # None THEN Unwrap(ge)
                                       ELSE FALSE

\* The device section switches tap off without naming an action, the
\* global section has the action and switches it on; swipe_left is named
\* by the global section only, with neither field set.
C27_Witness ==
    /\ ev = "merge_gestures"
    /\ call.global = [name \in ConfiguredNames |->
                        IF name = "tap"
                        THEN RawGestureConfig(Some("echo global"), Some(TRUE))
                        ELSE RawGestureConfig(None, None)]
    /\ call.device = [name \in {"tap"} |-> RawGestureConfig(None, Some(FALSE))]
    /\ rec["tap"] = GestureConfig(Some("echo global"), FALSE)
    /\ rec["swipe_left"] = GestureConfig(None, FALSE)

\* ---- C24 ------------------------------------------------------------------
\* The touch a FingerUp is about to end is no swipe, no long press and
\* too slow or too far for a tap.
NeitherTouch ==
    /\ IsSome(TouchOf(rec))
    /\ LET t == Unwrap(TouchOf(rec))
       IN  /\ ~SwipeQualifies(rec, t)
           /\ ~LongPressTouch(rec, t)
           /\ ~TapTouch(rec, t)

\* recognize_gesture left the double-tap bookkeeping as the expiry check of
\* the FingerUp had left it.
BookkeepingKept ==
    LET before == check_pending_tap_expired(rec, now).rec
    IN  /\ rec'.pending_tap = before.pending_tap
        /\ rec'.last_tap_time = before.last_tap_time
        /\ rec'.last_tap_position = before.last_tap_position

\* C24 as stated: such a touch yields no gesture from recognize_gesture and
\* leaves pending_tap, last_tap_time and last_tap_position unchanged.
C24_Original ==
    [][(ev' = "FingerUp" /\ NeitherTouch)
        => (Recognized(gestures') = None /\ BookkeepingKept)]_vars

\* C24 amended: such a touch yields from recognize_gesture what pinch
\* detection makes of it with two or more active tracking ids, and no
\* gesture otherwise; pending_tap, last_tap_time and last_tap_position are
\* left unchanged either way.
C24_NoGestureUnlessPinch ==
    [][(ev' = "FingerUp" /\ NeitherTouch)
        => LET t == Unwrap(TouchOf(rec))
           IN  /\ Recognized(gestures') =
                      IF t.fingers >= 2 THEN detect_pinch(rec) ELSE None
               /\ BookkeepingKept]_vars

\* A FingerUp ended a single-finger touch that lasted tap_time_max without
\* moving, with a tap of before still pending: nothing was returned and
\* the tap is still pending.
C24_Witness ==
    /\ ev = "FingerUp"
    /\ IsSome(lifted)
    /\ LET t == Unwrap(lifted)
       IN  /\ t.fingers = 1
           /\ t.dx = 0
           /\ t.dt >= rec.thresholds.tap_time_max
           /\ t.dt < rec.thresholds.long_press_time_min
    /\ gestures = <<>>
    /\ rec.pending_tap

\* ---- C25 ------------------------------------------------------------------
\* The file raw with the field f of the thresholds of device id set to v
Override(raw, id, f, v) ==
    [raw EXCEPT !.device[id].thresholds[f] = Some(v)]

\* C25: for every device of the result and every threshold field, the
\* resolved value is the device's own when its section sets the field and
\* the global one otherwise; setting one field in one device section
\* changes that value of that device and nothing else of the result.
C25_ThresholdsMerged ==
    (ev = "parse_config_file" /\ rec.ok) =>
        \A id \in DOMAIN rec.devices, f \in FieldNames :
            /\ rec.devices[id].thresholds[f] =
                   IF call.device[id].thresholds[f] # None
                   THEN Unwrap(call.device[id].thresholds[f])
                   ELSE Unwrap(call.global.thresholds[f])
            /\ LET other == parse_config_file(Override(call, id, f, 9),
                                              Unwrap(lifted))
               IN  /\ other.ok
                   /\ DOMAIN other.devices = DOMAIN rec.devices
                   /\ other.devices[id].thresholds[f] = 9
                   /\ \A id2 \in DOMAIN rec.devices, f2 \in FieldNames :
                        <<id2, f2>> # <<id, f>> =>
                            other.devices[id2].thresholds[f2]
                                = rec.devices[id2].thresholds[f2]
                   /\ \A id2 \in DOMAIN rec.devices :
                        other.devices[id2].device_usb_id
                            = rec.devices[id2].device_usb_id

\* Two devices resolved against a complete global section: kiosk sets
\* swipe_time_max only, wall sets nothing.
C25_Witness ==
    /\ ev = "parse_config_file"
    /\ rec.ok
    /\ DOMAIN rec.devices = DeviceIds
    /\ call.device["kiosk"].thresholds = RawThresholds({"swipe_time_max"}, 2)
    /\ call.device["wall"].thresholds = RawThresholds({}, 3)
    /\ rec.devices["kiosk"].thresholds["swipe_time_max"] = 2
    /\ rec.devices["kiosk"].thresholds["tap_time_max"] = 1
    /\ rec.devices["wall"].thresholds["swipe_time_max"] = 1

\* ---- C26 ------------------------------------------------------------------
\* The device sections that are enabled and name a USB id
Qualifying(raw) ==
    {id \in DOMAIN raw.device :
        /\ raw.device[id].enabled = Some(TRUE)
        /\ raw.device[id].device_usb_id \notin {None, Some("")}}

\* The fields neither the section of device id nor the global section sets
Absent(raw, id) ==
    SelectSeq(ThresholdFields,
              LAMBDA f : /\ raw.device[id].thresholds[f] = None
                         /\ raw.global.thresholds[f] = None)

\* C26: parse_config_file fails exactly when a device section that is
\* enabled and names a non-empty USB id lacks a threshold in both its own
\* and the global section; the error is about such a device and names
\* every field absent for it; on success the result holds exactly the
\* enabled devices with a USB id (none, for a file without devices,
\* whatever the global thresholds).
C26_MissingThresholds ==
    ev = "parse_config_file" =>
        LET failing == {id \in Qualifying(call) : Absent(call, id) # <<>>}
        IN  /\ rec.ok <=> failing = {}
            /\ rec.ok => DOMAIN rec.devices = Qualifying(call)
            /\ ~rec.ok => /\ rec.device \in failing
                          /\ rec.missing = Join(Absent(call, rec.device))

\* The global section sets nothing; kiosk sets nothing either but is not
\* enabled; wall is enabled, names a USB id and sets pinch_threshold_pct
\* only: the error is about wall and names the eight other fields.
C26_Witness ==
    /\ ev = "parse_config_file"
    /\ call.global.thresholds = RawThresholds({}, 1)
    /\ DOMAIN call.device = DeviceIds
    /\ call.device["kiosk"].enabled = None
    /\ call.device["kiosk"].thresholds = RawThresholds({}, 2)
    /\ call.device["wall"].thresholds = RawThresholds({"pinch_threshold_pct"}, 3)
    /\ ~rec.ok
    /\ rec.device = "wall"
    /\ rec.missing = Join(SubSeq(ThresholdFields, 1, 8))

\* ---- C28 ------------------------------------------------------------------
\* No touch is in progress in r and no coordinate is buffered.
SessionEmpty(r) ==
    /\ r.touch_start = None
    /\ r.touch_current = None
    /\ r.touch_points = <<>>
    /\ r.active_touches = EmptyMap
    /\ r.pending_x = None
    /\ r.pending_y = None

\* C28: after a disconnect and a successful reconnect, event processing
\* starts from empty session state: no touch_start, touch_current,
\* touch_points, active_touches or buffered coordinates of before.
C28_Original == ev = "Reconnect" => SessionEmpty(rec)

\* ---- C29 ------------------------------------------------------------------
\* C29: the calls for PositionX, PositionY and TrackingId events return
\* nothing; the call for a SynReport returns nothing or one Tap; every
\* other gesture comes from the call for a FingerUp, which returns at
\* most two gestures, and when two, a Tap followed by a gesture other
\* than Tap.
C29_GesturesByEventKind ==
    /\ ev \in {"PositionX", "PositionY", "TrackingId"} => gestures = <<>>
    /\ ev = "SynReport" => gestures \in {<<>>, <<"Tap">>}
    /\ ev # "FingerUp" => Range(gestures) \subseteq {"Tap"}
    /\ ev = "FingerUp" =>
        /\ Len(gestures) <= 2
        /\ Len(gestures) = 2 => (gestures[1] = "Tap" /\ gestures[2] # "Tap")

\* The call for a FingerUp returned the Tap of an earlier tap and the
\* swipe of the touch it ended.
C29_Witness ==
    /\ ev = "FingerUp"
    /\ Len(gestures) = 2
    /\ gestures[1] = "Tap"
    /\ gestures[2] \in SwipeTypes

\* ---- C30 ------------------------------------------------------------------
\* C30: after every FingerUp no touch is in progress for any finger and no
\* coordinate is buffered, whatever was returned; nothing but the commit
\* of a SynReport starts a touch again, and the sample it commits, made of
\* the coordinates buffered since, becomes touch_start.
C30_FingerUpEndsSession ==
    [][/\ ev' = "FingerUp" => SessionEmpty(rec')
       /\ (rec.touch_start = None /\ ev' # "SynReport")
             => (rec'.touch_start = None /\ rec'.touch_points = <<>>)
       /\ (rec.touch_start = None /\ ev' = "SynReport"
             /\ rec'.touch_points # rec.touch_points)
             => /\ rec'.touch_start = Some(rec'.touch_points[Len(rec'.touch_points)])
                /\ rec.pending_x # None
                     => Unwrap(rec'.touch_start).x = Unwrap(rec.pending_x)
                /\ rec.pending_y # None
                     => Unwrap(rec'.touch_start).y = Unwrap(rec.pending_y)
      ]_vars

\* A FingerUp arrived with two tracking ids active and an X buffered after
\* the last commit: the session is over and the buffer empty.
C30_Witness ==
    /\ ev = "FingerUp"
    /\ IsSome(lifted)
    /\ Unwrap(lifted).fingers = 2
    /\ IsSome(Unwrap(call).pending_x)
    /\ SessionEmpty(rec)

\* ---- C31 ------------------------------------------------------------------
\* C31: every committed sample carries the clock of its commit: the times
\* in touch_points never decrease and none lies after the clock,
\* touch_start is not later than touch_current, and last_tap_time is not
\* after the clock; so the durations the swipe, stationary and expiry
\* tests take (current - start, clock - last_tap_time) are differences of
\* a later and an earlier time.
C31_TimesInOrder ==
    /\ \A i \in 1..Len(rec.touch_points) :
        /\ rec.touch_points[i].time <= now
        /\ \A j \in i..Len(rec.touch_points) :
               rec.touch_points[i].time <= rec.touch_points[j].time
    /\ (IsSome(rec.touch_start) /\ IsSome(rec.touch_current)) =>
           Unwrap(rec.touch_start).time <= Unwrap(rec.touch_current).time
    /\ IsSome(rec.touch_current) => Unwrap(rec.touch_current).time <= now
    /\ IsSome(rec.last_tap_time) => Unwrap(rec.last_tap_time) <= now

\* Two samples committed at different times, with a tap of before on
\* record.
C31_Witness ==
    /\ Len(rec.touch_points) = 2
    /\ rec.touch_points[1].time < rec.touch_points[2].time
    /\ IsSome(rec.last_tap_time)
    /\ Unwrap(rec.last_tap_time) < rec.touch_points[1].time

\* ---- C32 ------------------------------------------------------------------
\* Swipe detection, then stationary detection when it yields nothing, on
\* touch_start and touch_current of r.
SwipeThenStationary(r, clock) ==
    LET start == Unwrap(r.touch_start)
        current == Unwrap(r.touch_current)
        swipe == detect_swipe(r, start, current)
    IN  IF IsSome(swipe) THEN [rec |-> r, g |-> swipe]
        ELSE detect_stationary(r, start, current, clock)

\* C32: with two or more tracking ids active and no result of pinch
\* detection, recognize_gesture returns what swipe detection followed by
\* stationary detection returns for touch_start and touch_current, and
\* records a pending tap as they do.
C32_FallsThroughToSwipe ==
    [][(/\ ev' = "FingerUp"
        /\ IsSome(TouchOf(rec))
        /\ Unwrap(TouchOf(rec)).fingers >= 2
        /\ detect_pinch(rec) = None)
        => LET before == check_pending_tap_expired(rec, now).rec
               expected == SwipeThenStationary(before, now')
           IN  /\ Recognized(gestures') = expected.g
               /\ rec'.pending_tap = expected.rec.pending_tap
               /\ rec'.last_tap_time = expected.rec.last_tap_time
               /\ rec'.last_tap_position = expected.rec.last_tap_position]_vars

\* A FingerUp ended a touch of two fingers for which pinch detection
\* yields nothing and whose first and last sample have the same X: a
\* pending tap was recorded.
C32_Witness ==
    /\ ev = "FingerUp"
    /\ IsSome(lifted)
    /\ Unwrap(lifted).fingers = 2
    /\ Unwrap(lifted).pinch = None
    /\ Unwrap(lifted).dx = 0
    /\ gestures = <<>>
    /\ rec.pending_tap
    /\ rec.last_tap_time = Some(now)

\* ---- C33 ------------------------------------------------------------------
\* C33: a call of recognize_gesture that returned no gesture, repeated with
\* no other call in between, again returns no gesture.
C33_Original ==
    [][(/\ ev = "recognize_gesture"
        /\ gestures = None
        /\ ev' = "recognize_gesture")
        => gestures' = None]_vars

\* ---- C34 ------------------------------------------------------------------
\* C34: recognize_gesture returns DoubleTap only if the pending-tap flag is
\* set when it is called (in a FingerUp: after the expiry check), so a tap
\* that get_pending_tap or the expiry has consumed is not counted again.
C34_Original ==
    [][(ev' = "FingerUp" /\ "DoubleTap" \in Range(gestures'))
        => check_pending_tap_expired(rec, now).rec.pending_tap]_vars

\* ---- C35 ------------------------------------------------------------------
\* C35: the duration the swipe, tap and long-press tests of a FingerUp take
\* is the time from the first to the last committed sample of the touch,
\* whatever the clock is at the FingerUp.  A touch with one committed
\* sample so has duration 0 and is a candidate tap: it is returned as
\* DoubleTap or recorded as the pending tap, never returned as LongPress,
\* however long after the commit the finger lifts.
C35_DurationBetweenCommits ==
    [][(ev' = "FingerUp" /\ IsSome(TouchOf(rec)))
        => LET t == Unwrap(TouchOf(rec))
               points == rec.touch_points
               single == Len(points) = 1
           IN  /\ t.dt = points[Len(points)].time - points[1].time
               /\ (t.fingers = 1 /\ ~SwipeQualifies(rec, t)) =>
                    /\ (t.dt >= rec.thresholds.long_press_time_min
                            /\ LongPressTouch(rec, t))
                         <=> Recognized(gestures') = Some("LongPress")
                    /\ TapTouch(rec, t) =>
                         \/ Recognized(gestures') = Some("DoubleTap")
                         \/ /\ Recognized(gestures') = None
                            /\ rec'.pending_tap
                            /\ rec'.last_tap_time = Some(now')
               /\ single =>
                    /\ t.dt = 0
                    /\ t.fingers = 1
                    /\ ~SwipeQualifies(rec, t)
                    /\ TapTouch(rec, t)]_vars

\* A FingerUp arrived long_press_time_min or more after the only commit of
\* its touch: the touch was recorded as a pending tap.
C35_Witness ==
    /\ ev = "FingerUp"
    /\ IsSome(lifted)
    /\ Unwrap(lifted).dt = 0
    /\ gestures = <<>>
    /\ rec.pending_tap
    /\ rec.last_tap_time = Some(now)
    /\ IsSome(call)
    /\ Unwrap(call).held >= rec.thresholds.long_press_time_min

\* ---- C36 ------------------------------------------------------------------
\* C36: in every state the operations of the recognizer reach, a set
\* pending-tap flag comes with last_tap_time and last_tap_position, and
\* the two are present or absent together; so the expiry check never
\* returns at the missing time with the flag set.
C36_TapRecordComplete ==
    /\ rec.pending_tap => (IsSome(rec.last_tap_time) /\ IsSome(rec.last_tap_position))
    /\ IsSome(rec.last_tap_time) <=> IsSome(rec.last_tap_position)

\* The expiry check found the flag set and the interval not yet over: it
\* returned nothing and the tap stays on record.
C36_Witness ==
    /\ ev = "check_pending_tap_expired"
    /\ gestures = None
    /\ rec.pending_tap
    /\ IsSome(rec.last_tap_time)
    /\ IsSome(rec.last_tap_position)

\* ---- C37 ------------------------------------------------------------------
\* The touch a FingerUp is about to end is a candidate tap, a tap is
\* pending whose interval is over neither at the expiry check nor at the
\* recognition (clock), and the touch ends double_tap_distance_max or
\* more away from it.
FarSecondTap(clock) ==
    /\ IsSome(TouchOf(rec))
    /\ LET t == Unwrap(TouchOf(rec))
           current == Unwrap(rec.touch_current)
           last == Unwrap(rec.last_tap_position)
       IN  /\ t.fingers = 1
           /\ ~SwipeQualifies(rec, t)
           /\ TapTouch(rec, t)
           /\ rec.pending_tap
           /\ IsSome(rec.last_tap_time)
           /\ DurationSince(clock, Unwrap(rec.last_tap_time))
                  < rec.thresholds.double_tap_interval
           /\ Sq(current.x - last[1]) + Sq(current.y - last[2])
                  >= Sq(rec.thresholds.double_tap_distance_max)

\* C37: a second candidate tap, recognized while a first tap is pending and
\* unexpired but double_tap_distance_max or more away, returns nothing and
\* takes the place of the first as the pending tap, time and position.
\* There is one flag for both: a Tap is returned only with the flag set
\* and the interval of the tap on record over, once per call, so the
\* first tap is not returned afterwards and the two give at most one Tap.
C37_FarTapReplaces ==
    [][/\ (ev' = "FingerUp" /\ FarSecondTap(now'))
            => /\ gestures' = <<>>
               /\ rec'.pending_tap
               /\ rec'.last_tap_time = Some(now')
               /\ rec'.last_tap_position =
                      Some(<<Unwrap(rec.touch_current).x,
                             Unwrap(rec.touch_current).y>>)
       /\ "Tap" \in Range(gestures')
            => /\ rec.pending_tap
               /\ ExpiredAt(rec, IF ev' = "FingerUp" THEN now ELSE now')
               /\ Len(SelectSeq(gestures', LAMBDA g : g = "Tap")) = 1
               /\ ev' = "SynReport" => ~rec'.pending_tap
      ]_vars

\* A FingerUp ended a tap at one end of the X axis while a tap at the
\* other end was pending: nothing was returned and the tap on record is
\* the new one.
C37_Witness ==
    /\ ev = "FingerUp"
    /\ gestures = <<>>
    /\ IsSome(call)
    /\ Unwrap(call).pending_tap
    /\ Unwrap(call).last_tap_position = Some(<<0, 0>>)
    /\ now - Unwrap(Unwrap(call).last_tap_time) < rec.thresholds.double_tap_interval
    /\ rec.pending_tap
    /\ rec.last_tap_position = Some(<<XMax, 0>>)
    /\ rec.last_tap_time = Some(now)

\* ---- C38 ------------------------------------------------------------------
\* C38: the pending tracking id is changed by a TrackingId event and by
\* reset only.  A SynReport that commits a sample keeps it and stamps it on
\* the sample (touch_current, the last of touch_points and the key of
\* active_touches); a coordinate event, a silent stretch and a reconnect
\* keep it; a FingerUp sets it to 0, whatever it was.  So the samples
\* committed after a FingerUp carry 0 until a TrackingId event arrives.
C38_TrackingIdSticky ==
    [][/\ ev' \in {"PositionX", "PositionY", "SynReport", "Tick", "Reconnect"}
            => rec'.pending_tracking_id = rec.pending_tracking_id
       /\ ev' = "FingerUp" => rec'.pending_tracking_id = 0
       /\ (ev' = "SynReport" /\ (IsSome(rec.pending_x) \/ IsSome(rec.pending_y)))
            => /\ Unwrap(rec'.touch_current).tracking_id = rec.pending_tracking_id
               /\ rec'.touch_points[Len(rec'.touch_points)].tracking_id
                      = rec.pending_tracking_id
               /\ Len(rec'.touch_points) = Len(rec.touch_points) + 1
               /\ rec.pending_tracking_id \in DOMAIN rec'.active_touches
      ]_vars

\* A FingerUp arrived for a finger whose samples carried id 1 while the
\* pending id was 1: the pending id is 0 afterwards.
C38_Witness ==
    /\ ev = "FingerUp"
    /\ IsSome(Unwrap(call).touch_current)
    /\ Unwrap(Unwrap(call).touch_current).tracking_id = 1
    /\ Unwrap(call).pending_tracking_id = 1
    /\ rec.pending_tracking_id = 0

\* ---- C39 ------------------------------------------------------------------
\* C39: a read error met with the flag set starts attempt_reconnect at
\* attempt 1, whatever the worker tried before, and one met with the flag
\* clear ends the worker with no attempt.  The flag is loaded before each
\* attempt: clear, the worker ends; set, it sleeps and looks for the
\* device.  The attempts of one disconnect number at most MAX_RETRIES: a
\* device found takes the worker back to the head of the event loop, a
\* failure before the last attempt to the next one, and the failure of the
\* last attempt ends the worker.  A worker that has ended takes no step
\* and processes no event.
C39_ReconnectBudget ==
    [][\A d \in Devices :
        LET w == rec[d]
            w2 == rec'[d]
            mine == lifted' = Some(d)
        IN  /\ w2.attempt \in 0..MAX_RETRIES
            /\ w2.pc \in {"retry", "sleep"} <=> w2.attempt >= 1
            /\ (mine /\ ev' = "err")
                 => IF call.running
                    THEN w2.pc = "retry" /\ w2.attempt = 1
                    ELSE w2.pc = "done"
            /\ (mine /\ ev' = "fetch_error") => w2.pc = "err"
            /\ (mine /\ ev' = "retry")
                 => IF call.running
                    THEN w2.pc = "sleep" /\ w2.attempt = w.attempt
                    ELSE w2.pc = "done"
            /\ (w2.pc = "sleep" /\ w.pc # "sleep")
                 => mine /\ ev' = "retry" /\ call.running
            /\ (mine /\ ev' = "reconnected") => w2.pc = "while"
            /\ (mine /\ ev' = "not_found")
                 => IF w.attempt = MAX_RETRIES
                    THEN w2.pc = "done"
                    ELSE w2.pc = "retry" /\ w2.attempt = w.attempt + 1
            /\ w.pc = "done" => (w2 = w /\ ~mine)
      ]_vars

\* With the flag set, a worker looked for its device for the last time,
\* did not find it and ended.
C39_Witness ==
    /\ ev = "not_found"
    /\ call.running
    /\ \E d \in Devices : lifted = Some(d) /\ rec[d].pc = "done"

\* ---- C40 ------------------------------------------------------------------
\* C40: once the running flag is clear while start waits for its workers,
\* every worker ends and start returns; and a worker that has found the
\* flag clear fetches and processes nothing more: at the first event of
\* a batch at which it finds the flag clear it leaves the rest of the
\* batch.
C40_Original ==
    /\ (call.start = "joining" /\ ~call.running)
         ~> (call.start = "returned" /\ \A d \in Devices : rec[d].pc \in {"none", "done"})
    /\ [][\A d \in Devices :
            /\ rec[d].saw_clear
                 => /\ rec'[d].pc \in {"while", "done"}
                    /\ gestures' # <<d>>
            /\ (lifted' = Some(d) /\ ev' = "for" /\ rec[d].batch > 0 /\ ~call.running)
                 => /\ gestures' = <<>>
                    /\ rec'[d].batch = 0
                    /\ rec'[d].saw_clear
         ]_vars

====
